---- MODULE Spec2Model ----
(***************************************************************************)
(* Reconciliation core of the magnum-capi-helm driver: one polling pass of *)
(* Driver.update_cluster_status over a cluster record and its node group   *)
(* records, against the responses of the Kubernetes API, together with the *)
(* driver operations that put the records into the states a pass sees.     *)
(*                                                                         *)
(* Python values: an Optional is a sequence, None == <<>> and a value v    *)
(* is <<v>>; a fetched object is a record with present = TRUE, an absent   *)
(* one (None) is NoObject.                                                 *)
(***************************************************************************)
EXTENDS Integers, Sequences, FiniteSets, TLC

VARIABLES
    cluster,      \* the cluster record (as persisted)
    nodegroups,   \* the cluster's node group records, in collection order
    appcred,      \* the application credential in the identity service
    pc,           \* position of the running operation
    pass,         \* locals of the running update_cluster_status pass
    log,          \* calls made by the most recent operation, in order
    pre           \* the records when the most recent operation started

vars == <<cluster, nodegroups, appcred, pc, pass, log, pre>>

-----------------------------------------------------------------------------
(* Bounds of the model *)

MaxAddons == 2
MaxMachines == 1

-----------------------------------------------------------------------------
(* Values *)

None == <<>>
Some(v) == <<v>>
Truthy(o) == o # None /\ o[1] # ""

NoObject == [present |-> FALSE]

CREATE_IN_PROGRESS == "CREATE_IN_PROGRESS"
CREATE_COMPLETE == "CREATE_COMPLETE"
CREATE_FAILED == "CREATE_FAILED"
UPDATE_IN_PROGRESS == "UPDATE_IN_PROGRESS"
UPDATE_COMPLETE == "UPDATE_COMPLETE"
UPDATE_FAILED == "UPDATE_FAILED"
DELETE_IN_PROGRESS == "DELETE_IN_PROGRESS"
DELETE_COMPLETE == "DELETE_COMPLETE"

\* str.startswith("CREATE_") and friends, on the status vocabulary
Prefix(status) ==
    CASE status \in {CREATE_IN_PROGRESS, CREATE_COMPLETE, CREATE_FAILED} -> "CREATE_"
      [] status \in {UPDATE_IN_PROGRESS, UPDATE_COMPLETE, UPDATE_FAILED} -> "UPDATE_"
      [] status \in {DELETE_IN_PROGRESS, DELETE_COMPLETE, "DELETE_FAILED"} -> "DELETE_"
      [] OTHER -> "OTHER_"

\* str.endswith("_IN_PROGRESS")
EndsInProgress(status) ==
    status \in {CREATE_IN_PROGRESS, UPDATE_IN_PROGRESS, DELETE_IN_PROGRESS,
                "ROLLBACK_IN_PROGRESS"}

NODE_GROUP_ROLE_CONTROLLER == "master"

\* class NodeGroupState
NOT_PRESENT == "NOT_PRESENT"
PENDING == "PENDING"
READY == "READY"
FAILED == "FAILED"

-----------------------------------------------------------------------------
(* Resource client (kubernetes.py) *)

\* An HTTP response to a GET of one object, and to one label-filtered list
RespObject(obj) == [code |-> 200, body |-> obj]
RespNotFound == [code |-> 404, body |-> NoObject]
RespServerError == [code |-> 500, body |-> NoObject]
RespList(items) == [code |-> 200, items |-> items]
RespListError == [code |-> 500, items |-> <<>>]

\* requests.Response.raise_for_status: raises for a 4xx or a 5xx status
\* code and for no other
RaiseForStatus(code) == 400 <= code /\ code < 600

\* Resource.fetch: 2xx gives the decoded object, 404 gives None, anything
\* else goes to raise_for_status; when that does not raise the function
\* ends without a return statement, which gives None
Fetch(resp) ==
    IF 200 <= resp.code /\ resp.code < 300
    THEN [raised |-> FALSE, val |-> resp.body]
    ELSE IF resp.code = 404
    THEN [raised |-> FALSE, val |-> NoObject]
    ELSE IF RaiseForStatus(resp.code)
    THEN [raised |-> TRUE, val |-> NoObject]
    ELSE [raised |-> FALSE, val |-> NoObject]

\* Resource.fetch_all_by_label on a server that answers with one page:
\* raise_for_status, then the items
FetchAllByLabel(resp) ==
    IF RaiseForStatus(resp.code)
    THEN [raised |-> TRUE, val |-> <<>>]
    ELSE [raised |-> FALSE, val |-> resp.items]

\* Client.get_addons_by_label: the manifests, then the Helm releases
GetAddonsByLabel(manifests_resp, releases_resp) ==
    LET manifests == FetchAllByLabel(manifests_resp)
        releases == FetchAllByLabel(releases_resp)
    IN  IF manifests.raised \/ releases.raised
        THEN [raised |-> TRUE, val |-> <<>>]
        ELSE [raised |-> FALSE, val |-> manifests.val \o releases.val]

-----------------------------------------------------------------------------
(* Node group status reducers (driver.py) *)

TrueConditions(conditions) ==
    {cond.type : cond \in {c \in conditions : c.status = "True"}}

\* A variant of KubeVersion that prefers the version of the spec
KubeVersionOfSpec(kcp) ==
    IF ~kcp.present THEN None
    ELSE IF kcp.spec_version # None THEN kcp.spec_version
    ELSE kcp.status_version

\* kcp_status.get("version", kcp_spec.get("version"))
KubeVersion(kcp) ==
    IF ~kcp.present THEN None
    ELSE IF kcp.status_version # None THEN kcp.status_version
    ELSE kcp.spec_version

KcpReadyConditions ==
    {"MachinesReady", "Ready", "EtcdClusterHealthy", "ControlPlaneComponentsHealthy"}

\* A variant of ControlPlaneState that reports FAILED for a control plane
\* with a condition that is not "True"
ControlPlaneStateFailing(kcp) ==
    LET conditions == IF kcp.present THEN kcp.conditions ELSE {}
        kcp_ready == \A cond \in KcpReadyConditions : cond \in TrueConditions(conditions)
    IN  IF ~kcp.present THEN NOT_PRESENT
        ELSE IF ~kcp_ready THEN FAILED
        ELSE IF /\ kcp.spec_replicas = kcp.replicas
                /\ kcp.replicas = kcp.updatedReplicas
                /\ kcp.updatedReplicas = kcp.readyReplicas
        THEN READY
        ELSE PENDING

\* Driver._update_control_plane_nodegroup_status: the signal derived from
\* the control plane object
ControlPlaneState(kcp) ==
    LET conditions == IF kcp.present THEN kcp.conditions ELSE {}
        kcp_ready == \A cond \in KcpReadyConditions : cond \in TrueConditions(conditions)
        target_replicas == IF kcp.present THEN kcp.spec_replicas ELSE None
        current_replicas == IF kcp.present THEN kcp.replicas ELSE None
        updated_replicas == IF kcp.present THEN kcp.updatedReplicas ELSE None
        ready_replicas == IF kcp.present THEN kcp.readyReplicas ELSE None
    IN  IF /\ kcp_ready
           /\ target_replicas = current_replicas
           /\ current_replicas = updated_replicas
           /\ updated_replicas = ready_replicas
        THEN READY
        ELSE IF kcp.present THEN PENDING ELSE NOT_PRESENT

\* Driver._update_worker_nodegroup_status asks for the group's machines
\* only when the machine deployment is gone and the group is being deleted
AsksForMachines(md, nodegroup) ==
    ~md.present /\ Prefix(nodegroup.status) = "DELETE_"

\* A variant of WorkerState that takes the phase Unknown for a pending one
WorkerStateUnknownPending(md, nodegroup, machines_exist) ==
    LET md_phase == IF md.present THEN md.phase ELSE None
    IN  IF Truthy(md_phase) /\ md_phase[1] = "Running" THEN READY
        ELSE IF Truthy(md_phase) /\ md_phase[1] = "Failed" THEN FAILED
        ELSE IF AsksForMachines(md, nodegroup) /\ machines_exist THEN PENDING
        ELSE IF md.present THEN PENDING
        ELSE NOT_PRESENT

\* A variant of WorkerState without the delete-race guard: the machines of
\* a group being deleted are not looked at
WorkerStateNoGuard(md, nodegroup, machines_exist) ==
    LET md_phase == IF md.present THEN md.phase ELSE None
    IN  IF Truthy(md_phase) /\ md_phase[1] = "Running" THEN READY
        ELSE IF Truthy(md_phase) /\ md_phase[1] \in {"Failed", "Unknown"} THEN FAILED
        ELSE IF md.present THEN PENDING
        ELSE NOT_PRESENT

\* Driver._update_worker_nodegroup_status: the signal derived from the
\* machine deployment; machines_exist is _nodegroup_machines_exist's result
WorkerState(md, nodegroup, machines_exist) ==
    LET md_phase == IF md.present THEN md.phase ELSE None
    IN  IF Truthy(md_phase) /\ md_phase[1] = "Running" THEN READY
        ELSE IF Truthy(md_phase) /\ md_phase[1] \in {"Failed", "Unknown"} THEN FAILED
        ELSE IF AsksForMachines(md, nodegroup) /\ machines_exist THEN PENDING
        ELSE IF md.present THEN PENDING
        ELSE NOT_PRESENT

\* Variants of UpdateNodegroupStatus: one destroys a group being deleted
\* on any signal, one destroys default groups too, one takes every
\* operation for a create
UpdateNodegroupStatusAnySignal(nodegroup, ng_state) ==
    LET keep == [nodegroup |-> nodegroup, saved |-> FALSE, destroyed |-> FALSE,
                 returned |-> TRUE]
    IN  IF Prefix(nodegroup.status) = "DELETE_"
        THEN [keep EXCEPT !.destroyed = ~nodegroup.is_default, !.returned = FALSE]
        ELSE keep

UpdateNodegroupStatusNoDefaultCheck(nodegroup, ng_state) ==
    LET keep == [nodegroup |-> nodegroup, saved |-> FALSE, destroyed |-> FALSE,
                 returned |-> TRUE]
    IN  IF Prefix(nodegroup.status) = "DELETE_" /\ ng_state = NOT_PRESENT
        THEN [keep EXCEPT !.destroyed = TRUE, !.returned = FALSE]
        ELSE keep

UpdateNodegroupStatusAsCreate(nodegroup, ng_state) ==
    LET keep == [nodegroup |-> nodegroup, saved |-> FALSE, destroyed |-> FALSE,
                 returned |-> TRUE]
    IN  IF Prefix(nodegroup.status) = "DELETE_"
        THEN IF ng_state = NOT_PRESENT
             THEN [keep EXCEPT !.destroyed = ~nodegroup.is_default,
                               !.returned = FALSE]
             ELSE keep
        ELSE IF Prefix(nodegroup.status) \notin {"CREATE_", "UPDATE_"}
        THEN keep
        ELSE IF ng_state = READY
        THEN [keep EXCEPT !.nodegroup.status = CREATE_COMPLETE, !.saved = TRUE]
        ELSE IF ng_state = FAILED
        THEN [keep EXCEPT !.nodegroup.status = CREATE_FAILED, !.saved = TRUE]
        ELSE keep

\* Driver._update_nodegroup_status: the record after applying the signal,
\* whether it was saved or destroyed, and whether the node group is
\* returned (returned = FALSE is the "deleted" signal, None)
UpdateNodegroupStatus(nodegroup, ng_state) ==
    LET is_update_operation == Prefix(nodegroup.status) = "UPDATE_"
        is_create_operation == Prefix(nodegroup.status) = "CREATE_"
        keep == [nodegroup |-> nodegroup, saved |-> FALSE, destroyed |-> FALSE,
                 returned |-> TRUE]
    IN  IF Prefix(nodegroup.status) = "DELETE_"
        THEN IF ng_state = NOT_PRESENT
             THEN [keep EXCEPT !.destroyed = ~nodegroup.is_default,
                               !.returned = FALSE]
             ELSE keep
        ELSE IF ~is_update_operation /\ ~is_create_operation
        THEN keep
        ELSE IF ng_state = READY
        THEN [keep EXCEPT !.nodegroup.status =
                              IF is_update_operation THEN UPDATE_COMPLETE
                              ELSE CREATE_COMPLETE,
                          !.saved = TRUE]
        ELSE IF ng_state = FAILED
        THEN [keep EXCEPT !.nodegroup.status =
                              IF is_update_operation THEN UPDATE_FAILED
                              ELSE CREATE_FAILED,
                          !.saved = TRUE]
        ELSE keep

-----------------------------------------------------------------------------
(* Cluster status reducer (driver.py) *)

ClusterReadyConditions == <<"InfrastructureReady", "ControlPlaneReady", "Ready">>

\* A variant of ClusterConditionsReady that forgets the Ready condition
ClusterConditionsReadyTwo(capi_cluster) ==
    \A cond \in {"InfrastructureReady", "ControlPlaneReady"} :
        cond \in TrueConditions(capi_cluster.conditions)

\* Driver._update_status_updating, the condition check
ClusterConditionsReady(capi_cluster) ==
    \A i \in 1..Len(ClusterReadyConditions) :
        ClusterReadyConditions[i] \in TrueConditions(capi_cluster.conditions)

\* Driver._update_status_updating, the loop over the add-ons: "failed" at
\* the first Failed/Unknown add-on, "wait" at the first one that is not
\* Deployed, "complete" when the loop runs to its end
RECURSIVE AddonVerdict(_)
AddonVerdict(addons) ==
    IF addons = <<>> THEN "complete"
    ELSE LET addon_phase == Head(addons).phase
         IN  IF Truthy(addon_phase) /\ addon_phase[1] \in {"Failed", "Unknown"}
             THEN "failed"
             ELSE IF Truthy(addon_phase) /\ addon_phase[1] = "Deployed"
             THEN AddonVerdict(Tail(addons))
             ELSE "wait"

\* f"https://{api_endpoint['host']}:{api_endpoint['port']}"
ApiAddress(api_endpoint) == <<"https", api_endpoint.host, api_endpoint.port>>

\* A variant of UpdateClusterApiAddress without the check of the status
UpdateClusterApiAddressAnyStatus(c, capi_cluster) ==
    LET skip == [api_address |-> c.api_address, saved |-> FALSE]
    IN  IF ~capi_cluster.present THEN skip
        ELSE IF capi_cluster.endpoint # None
        THEN LET api_address == Some(ApiAddress(capi_cluster.endpoint[1]))
             IN  IF c.api_address # api_address
                 THEN [api_address |-> api_address, saved |-> TRUE]
                 ELSE skip
        ELSE skip

\* A variant of UpdateClusterApiAddress that takes a missing endpoint for
\* an address of None
UpdateClusterApiAddressClearing(c, capi_cluster) ==
    LET skip == [api_address |-> c.api_address, saved |-> FALSE]
        api_address == IF capi_cluster.endpoint # None
                       THEN Some(ApiAddress(capi_cluster.endpoint[1])) ELSE None
    IN  IF ~capi_cluster.present THEN skip
        ELSE IF c.status \notin {CREATE_IN_PROGRESS, UPDATE_IN_PROGRESS} THEN skip
        ELSE IF c.api_address # api_address
        THEN [api_address |-> api_address, saved |-> TRUE]
        ELSE skip

\* Driver._update_cluster_api_address: the address the record holds after
\* it, and whether the record was saved
UpdateClusterApiAddress(c, capi_cluster) ==
    LET skip == [api_address |-> c.api_address, saved |-> FALSE]
    IN  IF ~capi_cluster.present THEN skip
        ELSE IF c.status \notin {CREATE_IN_PROGRESS, UPDATE_IN_PROGRESS} THEN skip
        ELSE IF capi_cluster.endpoint # None
        THEN LET api_address == Some(ApiAddress(capi_cluster.endpoint[1]))
             IN  IF c.api_address # api_address
                 THEN [api_address |-> api_address, saved |-> TRUE]
                 ELSE skip
        ELSE skip

\* A variant of NodegroupsInProgress that never reports a group in progress
NodegroupsInProgressNever(retained) == FALSE

\* Driver._update_all_nodegroups_status, its result: True if any of the
\* node groups it kept is still in progress
NodegroupsInProgress(retained) ==
    \E i \in 1..Len(retained) : EndsInProgress(retained[i].status)

\* app_creds.delete_app_cred: the lookup raises when the credential does
\* not exist, the name check raises when it is not one of Magnum's for this
\* cluster, and only then is it deleted
DeleteAppCred(cred) ==
    IF cred = "missing" THEN [raised |-> TRUE, deleted |-> FALSE]
    ELSE IF cred # "managed" THEN [raised |-> TRUE, deleted |-> FALSE]
    ELSE [raised |-> FALSE, deleted |-> TRUE]

-----------------------------------------------------------------------------
(* What the Kubernetes API may answer *)

ClusterConditions(false) ==
    {[type |-> ClusterReadyConditions[i],
      status |-> IF ClusterReadyConditions[i] \in false THEN "False" ELSE "True"] :
        i \in 1..Len(ClusterReadyConditions)}

Endpoint == [host |-> "10.0.0.5", port |-> 6443]

CapiCluster(conds, ep) == [present |-> TRUE, conditions |-> conds, endpoint |-> ep]

CapiClusters ==
    { CapiCluster(ClusterConditions({}), Some(Endpoint)),
      CapiCluster(ClusterConditions({}), None),
      CapiCluster(ClusterConditions({"InfrastructureReady"}), Some(Endpoint)),
      CapiCluster(ClusterConditions({"ControlPlaneReady"}), None),
      CapiCluster(ClusterConditions({"Ready"}), Some(Endpoint)),
      CapiCluster({}, None) }

CapiResponses ==
    {RespNotFound, RespServerError} \cup {RespObject(o) : o \in CapiClusters}

KcpConditions(false) ==
    {[type |-> t, status |-> IF t \in false THEN "False" ELSE "True"] :
        t \in KcpReadyConditions}

KcpObject(conds, spec_replicas, replicas, updated, ready, status_version, spec_version) ==
    [present |-> TRUE, conditions |-> conds, spec_replicas |-> spec_replicas,
     replicas |-> replicas, updatedReplicas |-> updated, readyReplicas |-> ready,
     status_version |-> status_version, spec_version |-> spec_version]

ControlPlanes ==
    { KcpObject(KcpConditions({}), Some(3), Some(3), Some(3), Some(3),
                Some("v1.28"), Some("v1.28")),
      KcpObject(KcpConditions({}), Some(3), Some(3), Some(2), Some(3),
                Some("v1.28"), Some("v1.29")),
      KcpObject(KcpConditions({"EtcdClusterHealthy"}), Some(3), Some(3), Some(3), Some(3),
                None, Some("v1.28")),
      KcpObject({}, None, None, None, None, None, None) }

KcpResponses ==
    {RespNotFound, RespServerError} \cup {RespObject(o) : o \in ControlPlanes}

MachineDeployments ==
    {[present |-> TRUE, phase |-> ph] :
        ph \in {None, Some("Running"), Some("Failed"), Some("Unknown"), Some("ScalingUp")}}

MdResponses ==
    {RespNotFound, RespServerError} \cup {RespObject(o) : o \in MachineDeployments}

MachineResponses ==
    {RespListError} \cup
    {RespList([i \in 1..n |-> [name |-> "machine"]]) : n \in 0..MaxMachines}

AddonPhases == {None, Some("Deployed"), Some("Failed"), Some("Unknown"), Some("Installing")}

AddonLists(n) ==
    UNION {[1..k -> {[phase |-> ph] : ph \in AddonPhases}] : k \in 0..n}

AddonListResponses(n) == {RespListError} \cup {RespList(l) : l \in AddonLists(n)}

-----------------------------------------------------------------------------
(* One pass of Driver.update_cluster_status *)

Ev(op, arg) == [op |-> op, arg |-> arg]

\* The locals of a pass: the cluster object fetched, the node groups still
\* to update and those kept, the node group update just made, the add-ons
\* queried, and how the pass ended
NoLast == [name |-> ""]

NoPass == [capi |-> NoObject, todo |-> <<>>, retained |-> <<>>, last |-> NoLast,
           addons |-> None, outcome |-> "none"]

\* A call raised: the pass ends where it is
Abort(events) ==
    /\ pc' = "idle"
    /\ pass' = [pass EXCEPT !.outcome = "raised", !.last = NoLast]
    /\ log' = log \o events

\* A variant of AfterGetCapiCluster that goes on to the node groups whether
\* or not the cluster object was found
AfterGetCapiClusterAnyObject(capi_cluster, events) ==
    LET address == UpdateClusterApiAddress(cluster, capi_cluster)
    IN  /\ cluster' = [cluster EXCEPT !.api_address = address.api_address]
        /\ log' = events \o
                  (IF address.saved THEN <<Ev("cluster.save", "api_address")>> ELSE <<>>)
        /\ pass' = [NoPass EXCEPT
                        !.capi = capi_cluster,
                        !.todo = nodegroups,
                        !.outcome = "running"]
        /\ pc' = IF nodegroups # <<>> THEN "nodegroups" ELSE "decide"

\* update_cluster_status after _get_capi_cluster returned: the address
\* update, then on to the node groups
AfterGetCapiCluster(capi_cluster, events) ==
    LET address == UpdateClusterApiAddress(cluster, capi_cluster)
    IN  /\ cluster' = [cluster EXCEPT !.api_address = address.api_address]
        /\ log' = events \o
                  (IF address.saved THEN <<Ev("cluster.save", "api_address")>> ELSE <<>>)
        /\ pass' = [NoPass EXCEPT
                        !.capi = capi_cluster,
                        !.todo = IF capi_cluster.present THEN nodegroups ELSE <<>>,
                        !.outcome = "running"]
        /\ pc' = IF capi_cluster.present /\ nodegroups # <<>> THEN "nodegroups"
                 ELSE "decide"

\* A variant of PassBegin that asks for the cluster object whether or not
\* there is a release name
PassBeginAlwaysFetching ==
    /\ pc = "idle"
    /\ pre' = [op |-> "update_cluster_status", cluster |-> cluster]
    /\ \E resp \in CapiResponses :
            LET got == Fetch(resp)
                events == <<Ev("get_capi_cluster",
                               IF cluster.stack_id = None THEN ""
                               ELSE cluster.stack_id[1])>>
            IN  IF got.raised
                THEN /\ pc' = "idle"
                     /\ pass' = [NoPass EXCEPT !.outcome = "raised"]
                     /\ log' = events
                     /\ UNCHANGED cluster
                ELSE AfterGetCapiCluster(got.val, events)
    /\ UNCHANGED <<nodegroups, appcred>>

\* Driver._get_capi_cluster and Driver._update_cluster_api_address
PassBegin ==
    /\ pc = "idle"
    /\ pre' = [op |-> "update_cluster_status", cluster |-> cluster]
    /\ IF cluster.stack_id = None
       THEN AfterGetCapiCluster(NoObject, <<>>)
       ELSE \E resp \in CapiResponses :
                LET got == Fetch(resp)
                    events == <<Ev("get_capi_cluster", cluster.stack_id[1])>>
                IN  IF got.raised
                    THEN /\ pc' = "idle"
                         /\ pass' = [NoPass EXCEPT !.outcome = "raised"]
                         /\ log' = events
                         /\ UNCHANGED cluster
                    ELSE AfterGetCapiCluster(got.val, events)
    /\ UNCHANGED <<nodegroups, appcred>>

\* The node group collection after one node group's update
StoredNodegroups(records, update) ==
    IF update.destroyed
    THEN SelectSeq(records, LAMBDA ng : ng.name # update.nodegroup.name)
    ELSE [i \in 1..Len(records) |->
            IF records[i].name = update.nodegroup.name /\ update.saved
            THEN update.nodegroup ELSE records[i]]

StoreNodegroup(update) == StoredNodegroups(nodegroups, update)

\* _update_all_nodegroups_status, the body of its loop once the signal is
\* known: _update_nodegroup_status and the append
ApplySignal(nodegroup, remote, machines, ng_state, events) ==
    LET update == UpdateNodegroupStatus(nodegroup, ng_state)
        todo == Tail(pass.todo)
    IN  /\ nodegroups' = StoreNodegroup(update)
        /\ log' = log \o events \o
                  (IF update.destroyed
                   THEN <<Ev("nodegroup.destroy", nodegroup.name)>>
                   ELSE IF update.saved
                   THEN <<Ev("nodegroup.save", nodegroup.name)>>
                   ELSE <<>>)
        /\ pass' = [pass EXCEPT
                        !.todo = todo,
                        !.retained = IF update.returned
                                     THEN Append(@, update.nodegroup) ELSE @,
                        !.last = [name |-> nodegroup.name,
                                  before |-> nodegroup,
                                  remote |-> remote,
                                  machines |-> machines,
                                  ng_state |-> ng_state,
                                  update |-> update]]
        /\ pc' = IF todo = <<>> THEN "decide" ELSE "nodegroups"

\* Driver._update_control_plane_nodegroup_status
PassControlPlane ==
    /\ pc = "nodegroups"
    /\ Head(pass.todo).role = NODE_GROUP_ROLE_CONTROLLER
    /\ \E resp \in KcpResponses :
        LET nodegroup == Head(pass.todo)
            got == Fetch(resp)
            kcp == got.val
            kube_version == KubeVersion(kcp)
            fetched == <<Ev("get_kubeadm_control_plane", nodegroup.name)>>
            events == fetched \o
                      (IF cluster.coe_version # kube_version
                       THEN <<Ev("cluster.save", "coe_version")>> ELSE <<>>)
        IN  IF got.raised
            THEN Abort(fetched) /\ UNCHANGED <<cluster, nodegroups>>
            ELSE /\ cluster' = [cluster EXCEPT !.coe_version = kube_version]
                 /\ ApplySignal(nodegroup, kcp, None, ControlPlaneState(kcp), events)
    /\ UNCHANGED <<appcred, pre>>

\* Driver._update_worker_nodegroup_status and _nodegroup_machines_exist
PassWorker ==
    /\ pc = "nodegroups"
    /\ Head(pass.todo).role # NODE_GROUP_ROLE_CONTROLLER
    /\ \E resp \in MdResponses :
        LET nodegroup == Head(pass.todo)
            got == Fetch(resp)
            md == got.val
            fetched == <<Ev("get_machine_deployment", nodegroup.name)>>
        IN  IF got.raised
            THEN Abort(fetched) /\ UNCHANGED nodegroups
            ELSE IF AsksForMachines(md, nodegroup)
            THEN \E mresp \in MachineResponses :
                    LET machines == FetchAllByLabel(mresp)
                        events == fetched \o
                            <<Ev("get_all_machines_by_label", nodegroup.name)>>
                    IN  IF machines.raised
                        THEN Abort(events) /\ UNCHANGED nodegroups
                        ELSE ApplySignal(nodegroup, md, Some(machines.val),
                                         WorkerState(md, nodegroup, machines.val # <<>>),
                                         events)
            ELSE ApplySignal(nodegroup, md, None,
                             WorkerState(md, nodegroup, FALSE), fetched)
    /\ UNCHANGED <<cluster, appcred, pre>>

\* The pass returns
Return(addons, events) ==
    /\ pc' = "idle"
    /\ pass' = [pass EXCEPT !.outcome = "returned", !.last = NoLast,
                            !.addons = addons]
    /\ log' = log \o events

\* A variant of StatusAfterAddons that decides on the first add-on alone
StatusAfterFirstAddon(status, addons) ==
    LET is_update_operation == Prefix(status) = "UPDATE_"
        verdict == AddonVerdict(IF addons = <<>> THEN <<>> ELSE <<Head(addons)>>)
    IN  IF verdict = "failed"
        THEN IF is_update_operation THEN UPDATE_FAILED ELSE CREATE_FAILED
        ELSE IF verdict = "complete"
        THEN IF is_update_operation THEN UPDATE_COMPLETE ELSE CREATE_COMPLETE
        ELSE status

\* A variant of StatusAfterAddons that completes only on a list with an
\* add-on in it
StatusAfterAddonsNonEmpty(status, addons) ==
    LET is_update_operation == Prefix(status) = "UPDATE_"
        verdict == AddonVerdict(addons)
    IN  IF verdict = "failed"
        THEN IF is_update_operation THEN UPDATE_FAILED ELSE CREATE_FAILED
        ELSE IF verdict = "complete" /\ addons # <<>>
        THEN IF is_update_operation THEN UPDATE_COMPLETE ELSE CREATE_COMPLETE
        ELSE status

\* Driver._update_status_updating after the add-on query: the cluster
\* status the loop over the add-ons leaves
StatusAfterAddons(status, addons) ==
    LET is_update_operation == Prefix(status) = "UPDATE_"
        verdict == AddonVerdict(addons)
    IN  IF verdict = "failed"
        THEN IF is_update_operation THEN UPDATE_FAILED ELSE CREATE_FAILED
        ELSE IF verdict = "complete"
        THEN IF is_update_operation THEN UPDATE_COMPLETE ELSE CREATE_COMPLETE
        ELSE status

\* Driver._update_status_updating
UpdateStatusUpdating ==
    IF ~ClusterConditionsReady(pass.capi)
    THEN Return(None, <<>>) /\ UNCHANGED cluster
    ELSE \E mresp \in AddonListResponses(MaxAddons) :
         \E rresp \in AddonListResponses(MaxAddons - Len(mresp.items)) :
            LET addons == GetAddonsByLabel(mresp, rresp)
                events == <<Ev("get_manifests_by_label", cluster.stack_id[1])>> \o
                          (IF FetchAllByLabel(mresp).raised THEN <<>>
                           ELSE <<Ev("get_helm_releases_by_label", cluster.stack_id[1])>>)
                status == StatusAfterAddons(cluster.status, addons.val)
            IN  IF addons.raised
                THEN Abort(events) /\ UNCHANGED cluster
                ELSE /\ cluster' = [cluster EXCEPT !.status = status]
                     /\ Return(Some(addons.val),
                               events \o (IF status # cluster.status
                                          THEN <<Ev("cluster.save", "status")>>
                                          ELSE <<>>))

\* update_cluster_status, the branch for a cluster being created or updated
PassUpdating ==
    /\ pc = "decide"
    /\ cluster.status \in {CREATE_IN_PROGRESS, UPDATE_IN_PROGRESS}
    /\ IF ~pass.capi.present
       THEN Return(None, <<>>) /\ UNCHANGED cluster
       ELSE IF NodegroupsInProgress(pass.retained)
       THEN Return(None, <<>>) /\ UNCHANGED cluster
       ELSE UpdateStatusUpdating
    /\ UNCHANGED <<nodegroups, appcred, pre>>

\* Resource.delete_all_by_label: raise_for_status on the DELETE's response
DeleteAllByLabel(code) == RaiseForStatus(code)

\* A variant of UpdateStatusDeleting that marks the cluster deleted before
\* the credential purge has succeeded
UpdateStatusDeletingEager ==
    \E code \in {200, 500} :
        LET purge == Ev("delete_all_secrets_by_label", "magnum.openstack.org/cluster-uuid")
            cred == DeleteAppCred(appcred)
        IN  IF DeleteAllByLabel(code)
            THEN Abort(<<purge>>) /\ UNCHANGED <<cluster, appcred>>
            ELSE IF cred.raised
            THEN /\ Abort(<<purge, Ev("cluster.save", "status"),
                              Ev("delete_app_cred", "raised")>>)
                 /\ cluster' = [cluster EXCEPT !.status = DELETE_COMPLETE]
                 /\ UNCHANGED appcred
            ELSE /\ appcred' = "missing"
                 /\ cluster' = [cluster EXCEPT !.status = DELETE_COMPLETE]
                 /\ Return(None, <<purge, Ev("cluster.save", "status"),
                                   Ev("delete_app_cred", "deleted")>>)

\* Driver._update_status_deleting
UpdateStatusDeleting ==
    \E code \in {200, 500} :
        LET purge == Ev("delete_all_secrets_by_label", "magnum.openstack.org/cluster-uuid")
            cred == DeleteAppCred(appcred)
        IN  IF DeleteAllByLabel(code)
            THEN Abort(<<purge>>) /\ UNCHANGED <<cluster, appcred>>
            ELSE IF cred.raised
            THEN /\ Abort(<<purge, Ev("delete_app_cred", "raised")>>)
                 /\ UNCHANGED <<cluster, appcred>>
            ELSE /\ appcred' = "missing"
                 /\ cluster' = [cluster EXCEPT !.status = DELETE_COMPLETE]
                 /\ Return(None, <<purge, Ev("delete_app_cred", "deleted"),
                                   Ev("cluster.save", "status")>>)

\* update_cluster_status, the branch for a cluster being deleted
PassDeleting ==
    /\ pc = "decide"
    /\ cluster.status = DELETE_IN_PROGRESS
    /\ IF pass.capi.present
       THEN Return(None, <<>>) /\ UNCHANGED <<cluster, appcred>>
       ELSE UpdateStatusDeleting
    /\ UNCHANGED <<nodegroups, pre>>

\* update_cluster_status on a cluster in any other status
PassOther ==
    /\ pc = "decide"
    /\ cluster.status \notin {CREATE_IN_PROGRESS, UPDATE_IN_PROGRESS, DELETE_IN_PROGRESS}
    /\ Return(None, <<>>)
    /\ UNCHANGED <<cluster, nodegroups, appcred, pre>>

-----------------------------------------------------------------------------
(* The driver operations that start a create, an upgrade and a delete *)

Started(op) == [op |-> op, cluster |-> cluster]

ReleaseName == "cluster-x7k2"

\* Driver.create_cluster: the flavor checks, _generate_release_name, then
\* the namespace, the secrets and the Helm release; done is the number of
\* steps made before one raises
CreateSteps ==
    <<"validate_allowed_flavor", "generate_release_name", "ensure_namespace",
      "create_appcred_secret", "ensure_certificate_secrets", "update_helm_release">>

CreateCluster ==
    /\ pc = "idle"
    /\ cluster.status = CREATE_IN_PROGRESS
    /\ cluster.stack_id = None
    /\ pre' = Started("create_cluster")
    /\ \E done \in (0..Len(CreateSteps)) \ {1} :
        /\ log' = [i \in 1..done |-> Ev(CreateSteps[i], "ok")] \o
                  (IF done < Len(CreateSteps)
                   THEN <<Ev(CreateSteps[done + 1], "raised")>> ELSE <<>>)
        /\ cluster' = IF done >= 2
                      THEN [cluster EXCEPT !.stack_id = Some(ReleaseName)]
                      ELSE cluster
    /\ pass' = NoPass
    /\ UNCHANGED <<nodegroups, appcred, pc>>

\* A variant of DeleteCluster that invokes the uninstall before it marks
\* the node groups
DeleteClusterUninstallFirst ==
    /\ pc = "idle"
    /\ cluster.status # DELETE_COMPLETE
    /\ pre' = Started("delete_cluster")
    /\ nodegroups' = [i \in 1..Len(nodegroups) |->
                        [nodegroups[i] EXCEPT !.status = DELETE_IN_PROGRESS]]
    /\ log' = (IF cluster.stack_id # None
               THEN <<Ev("uninstall_release", cluster.stack_id[1])>>
               ELSE <<>>) \o
              [i \in 1..Len(nodegroups) |-> Ev("nodegroup.save", nodegroups[i].name)]
    /\ pass' = NoPass
    /\ UNCHANGED <<cluster, appcred, pc>>

\* Driver.delete_cluster
DeleteCluster ==
    /\ pc = "idle"
    /\ cluster.status # DELETE_COMPLETE
    /\ pre' = Started("delete_cluster")
    /\ nodegroups' = [i \in 1..Len(nodegroups) |->
                        [nodegroups[i] EXCEPT !.status = DELETE_IN_PROGRESS]]
    /\ log' = [i \in 1..Len(nodegroups) |-> Ev("nodegroup.save", nodegroups[i].name)] \o
              (IF cluster.stack_id # None
               THEN <<Ev("uninstall_release", cluster.stack_id[1])>>
               ELSE <<>>)
    /\ pass' = NoPass
    /\ UNCHANGED <<cluster, appcred, pc>>

\* Driver.upgrade_cluster: valid is the number of node groups whose flavor
\* check passes before one raises
UpgradeCluster ==
    /\ pc = "idle"
    /\ cluster.status \in {CREATE_COMPLETE, UPDATE_COMPLETE, CREATE_FAILED, UPDATE_FAILED}
    /\ pre' = Started("upgrade_cluster")
    /\ \E valid \in 0..Len(nodegroups) :
        /\ nodegroups' = [i \in 1..Len(nodegroups) |->
                            IF i <= valid
                            THEN [nodegroups[i] EXCEPT !.status = UPDATE_IN_PROGRESS]
                            ELSE nodegroups[i]]
        /\ cluster' = IF valid = Len(nodegroups)
                      THEN [cluster EXCEPT !.status = UPDATE_IN_PROGRESS]
                      ELSE cluster
        /\ log' = [i \in 1..valid |-> Ev("nodegroup.save", nodegroups[i].name)] \o
                  (IF valid = Len(nodegroups)
                   THEN <<Ev("cluster.save", "status"), Ev("update_helm_release", "ok")>>
                   ELSE <<Ev("validate_allowed_flavor", "raised")>>)
    /\ pass' = NoPass
    /\ UNCHANGED <<appcred, pc>>

-----------------------------------------------------------------------------
(* The caller: the conductor marks the cluster as being deleted *)

CallerMarksDeleting ==
    /\ pc = "idle"
    /\ Prefix(cluster.status) # "DELETE_"
    /\ cluster' = [cluster EXCEPT !.status = DELETE_IN_PROGRESS]
    /\ pre' = Started("caller")
    /\ log' = <<>>
    /\ pass' = NoPass
    /\ UNCHANGED <<nodegroups, appcred, pc>>

\* The application credential is removed behind the driver's back while
\* the cluster is being deleted
CredentialRemoved ==
    /\ pc = "idle"
    /\ cluster.status = DELETE_IN_PROGRESS
    /\ appcred = "managed"
    /\ appcred' = "missing"
    /\ pre' = Started("caller")
    /\ log' = <<>>
    /\ pass' = NoPass
    /\ UNCHANGED <<cluster, nodegroups, pc>>

-----------------------------------------------------------------------------
(* Specification *)

ControllerGroup ==
    [name |-> "default-master", role |-> NODE_GROUP_ROLE_CONTROLLER,
     status |-> CREATE_IN_PROGRESS, is_default |-> TRUE]

WorkerGroup(is_default) ==
    [name |-> "workers", role |-> "worker",
     status |-> CREATE_IN_PROGRESS, is_default |-> is_default]

Init ==
    /\ cluster = [status |-> CREATE_IN_PROGRESS, api_address |-> None,
                  coe_version |-> None, stack_id |-> None]
    /\ \E is_default \in BOOLEAN :
          nodegroups \in {<<ControllerGroup, WorkerGroup(is_default)>>,
                          <<WorkerGroup(is_default), ControllerGroup>>}
    /\ appcred = "managed"
    /\ pc = "idle"
    /\ pass = NoPass
    /\ log = <<>>
    /\ pre = Started("none")

Next ==
    \/ PassBegin
    \/ PassControlPlane
    \/ PassWorker
    \/ PassUpdating
    \/ PassDeleting
    \/ PassOther
    \/ CreateCluster
    \/ DeleteCluster
    \/ UpgradeCluster
    \/ CallerMarksDeleting
    \/ CredentialRemoved

Spec == Init /\ [][Next]_vars

-----------------------------------------------------------------------------
(* _update_nodegroup_status on its own: every status, every signal *)

NodegroupStatuses ==
    {CREATE_IN_PROGRESS, CREATE_COMPLETE, CREATE_FAILED,
     UPDATE_IN_PROGRESS, UPDATE_COMPLETE, UPDATE_FAILED,
     DELETE_IN_PROGRESS, DELETE_COMPLETE, "DELETE_FAILED",
     "ROLLBACK_IN_PROGRESS", "RESUME_COMPLETE"}

NodeGroupStates == {NOT_PRESENT, PENDING, READY, FAILED}

InitTable ==
    /\ cluster = [status |-> CREATE_IN_PROGRESS, api_address |-> None,
                  coe_version |-> None, stack_id |-> Some(ReleaseName)]
    /\ \E status \in NodegroupStatuses, is_default \in BOOLEAN,
          role \in {NODE_GROUP_ROLE_CONTROLLER, "worker"} :
          nodegroups = <<[name |-> "group", role |-> role, status |-> status,
                          is_default |-> is_default]>>
    /\ appcred = "managed"
    /\ pc = "table"
    /\ pass = [NoPass EXCEPT !.todo = nodegroups, !.outcome = "running"]
    /\ log = <<>>
    /\ pre = Started("update_nodegroup_status")

ApplyTable ==
    /\ pc = "table"
    /\ \E ng_state \in NodeGroupStates :
          ApplySignal(Head(pass.todo), NoObject, None, ng_state, <<>>)
    /\ UNCHANGED <<cluster, appcred, pre>>

SpecTable == InitTable /\ [][ApplyTable]_vars


-----------------------------------------------------------------------------
(* Two passes in succession against remote objects that do not change *)

\* _update_all_nodegroups_status on remote objects already at hand: the
\* loop over the node groups, carrying the cluster record, the node group
\* records, the groups kept and the writes made
RECURSIVE UpdateAllNodegroups(_, _, _)
UpdateAllNodegroups(todo, remote, acc) ==
    IF todo = <<>> THEN acc
    ELSE LET nodegroup == Head(todo)
             controller == nodegroup.role = NODE_GROUP_ROLE_CONTROLLER
             kube_version == KubeVersion(remote.kcp)
             stamped == controller /\ acc.cluster.coe_version # kube_version
             machines_exist == AsksForMachines(remote.md, nodegroup)
                               /\ remote.machines # <<>>
             ng_state == IF controller THEN ControlPlaneState(remote.kcp)
                         ELSE WorkerState(remote.md, nodegroup, machines_exist)
             update == UpdateNodegroupStatus(nodegroup, ng_state)
         IN  UpdateAllNodegroups(Tail(todo), remote,
                [cluster |-> IF controller
                             THEN [acc.cluster EXCEPT !.coe_version = kube_version]
                             ELSE acc.cluster,
                 nodegroups |-> StoredNodegroups(acc.nodegroups, update),
                 retained |-> IF update.returned
                              THEN Append(acc.retained, update.nodegroup)
                              ELSE acc.retained,
                 writes |-> acc.writes \o
                     (IF stamped THEN <<Ev("cluster.save", "coe_version")>> ELSE <<>>) \o
                     (IF update.destroyed
                      THEN <<Ev("nodegroup.destroy", nodegroup.name)>>
                      ELSE IF update.saved
                      THEN <<Ev("nodegroup.save", nodegroup.name)>>
                      ELSE <<>>)])

\* update_cluster_status when none of its remote calls fails: the records
\* it leaves and the writes it makes
PassResult(c, records, cred, remote) ==
    LET capi_cluster == IF c.stack_id = None THEN NoObject ELSE remote.capi
        address == UpdateClusterApiAddress(c, capi_cluster)
        start == [cluster |-> [c EXCEPT !.api_address = address.api_address],
                  nodegroups |-> records,
                  retained |-> <<>>,
                  writes |-> IF address.saved
                             THEN <<Ev("cluster.save", "api_address")>> ELSE <<>>]
        groups == IF capi_cluster.present
                  THEN UpdateAllNodegroups(records, remote, start)
                  ELSE start
        status ==
            IF c.status \in {CREATE_IN_PROGRESS, UPDATE_IN_PROGRESS}
            THEN IF /\ capi_cluster.present
                    /\ ~NodegroupsInProgress(groups.retained)
                    /\ ClusterConditionsReady(capi_cluster)
                 THEN StatusAfterAddons(c.status, remote.addons)
                 ELSE c.status
            ELSE IF c.status = DELETE_IN_PROGRESS
            THEN IF ~capi_cluster.present /\ ~DeleteAppCred(cred).raised
                 THEN DELETE_COMPLETE
                 ELSE c.status
            ELSE c.status
    IN  [cluster |-> [groups.cluster EXCEPT !.status = status],
         nodegroups |-> groups.nodegroups,
         appcred |-> IF status = DELETE_COMPLETE /\ c.status = DELETE_IN_PROGRESS
                     THEN "missing" ELSE cred,
         writes |-> groups.writes \o
                    (IF status # c.status THEN <<Ev("cluster.save", "status")>>
                     ELSE <<>>)]

\* Remote objects as two passes in a row find them
RemoteStates ==
    [capi : {CapiCluster(ClusterConditions({}), Some(Endpoint)),
             CapiCluster(ClusterConditions({"Ready"}), Some(Endpoint)),
             NoObject},
     kcp : ControlPlanes \cup {NoObject},
     md : MachineDeployments \cup {NoObject},
     machines : {<<>>, <<[name |-> "machine"]>>},
     addons : {<<>>,
               <<[phase |-> Some("Deployed")]>>,
               <<[phase |-> Some("Deployed")], [phase |-> Some("Failed")]>>,
               <<[phase |-> Some("Installing")]>>}]

InitTwice ==
    /\ \E status \in {CREATE_IN_PROGRESS, UPDATE_IN_PROGRESS, DELETE_IN_PROGRESS} :
          cluster = [status |-> status, api_address |-> None,
                     coe_version |-> None, stack_id |-> Some(ReleaseName)]
    /\ \E controller, worker \in {CREATE_IN_PROGRESS, UPDATE_IN_PROGRESS,
                                  DELETE_IN_PROGRESS, CREATE_FAILED},
          is_default \in BOOLEAN :
          nodegroups = <<[ControllerGroup EXCEPT !.status = controller],
                         [WorkerGroup(is_default) EXCEPT !.status = worker]>>
    /\ appcred = "managed"
    /\ pc = "twice"
    /\ pass = [runs |-> 0]
    /\ log = <<>>
    /\ pre = Started("none")

\* One pass; the second finds the remote objects the first one found
RunPass ==
    /\ pc = "twice"
    /\ pass.runs < 2
    /\ \E remote \in IF pass.runs = 0 THEN RemoteStates ELSE {pass.remote} :
          LET result == PassResult(cluster, nodegroups, appcred, remote)
          IN  /\ cluster' = result.cluster
              /\ nodegroups' = result.nodegroups
              /\ appcred' = result.appcred
              /\ log' = result.writes
              /\ pass' = [runs |-> pass.runs + 1,
                          remote |-> remote,
                          first |-> IF pass.runs = 0
                                    THEN [cluster |-> result.cluster,
                                          nodegroups |-> result.nodegroups,
                                          writes |-> result.writes]
                                    ELSE pass.first]
    /\ pre' = [op |-> "update_cluster_status", cluster |-> cluster]
    /\ UNCHANGED pc

SpecTwice == InitTwice /\ [][RunPass]_vars

-----------------------------------------------------------------------------
(* The signal derivations on their own: every control plane and every
   machine deployment *)

\* Condition lists of a control plane: all four "True", or one of them
\* "False", or one of them missing
KcpConditionLists ==
    {KcpConditions({})}
    \cup {KcpConditions({t}) : t \in KcpReadyConditions}
    \cup {{c \in KcpConditions({}) : c.type # t} : t \in KcpReadyConditions}

ReplicaValues == {None, Some(1), Some(3)}

AllControlPlanes ==
    {KcpObject(conds, spec_replicas, replicas, updated, ready,
               status_version, spec_version) :
        conds \in KcpConditionLists,
        spec_replicas \in ReplicaValues, replicas \in ReplicaValues,
        updated \in ReplicaValues, ready \in ReplicaValues,
        status_version \in {None, Some("v1.28")},
        spec_version \in {None, Some("v1.28"), Some("v1.29")}}

AllMachineDeployments ==
    {[present |-> TRUE, phase |-> ph] :
        ph \in {None, Some(""), Some("Running"), Some("Failed"), Some("Unknown"),
                Some("ScalingUp"), Some("Deleting"), Some("running")}}

InitSignal ==
    /\ cluster = [status |-> CREATE_IN_PROGRESS, api_address |-> None,
                  coe_version |-> Some("v1.28"), stack_id |-> Some(ReleaseName)]
    /\ \E status \in NodegroupStatuses, is_default \in BOOLEAN,
          role \in {NODE_GROUP_ROLE_CONTROLLER, "worker"} :
          nodegroups = <<[name |-> "group", role |-> role, status |-> status,
                          is_default |-> is_default]>>
    /\ appcred = "managed"
    /\ pc = "signal"
    /\ pass = [NoPass EXCEPT !.todo = nodegroups, !.outcome = "running"]
    /\ log = <<>>
    /\ pre = Started("update_cluster_status")

\* _update_control_plane_nodegroup_status on a control plane object fetched
DeriveControlPlane ==
    /\ pc = "signal"
    /\ Head(pass.todo).role = NODE_GROUP_ROLE_CONTROLLER
    /\ \E kcp \in AllControlPlanes \cup {NoObject} :
          LET kube_version == KubeVersion(kcp)
          IN  /\ cluster' = [cluster EXCEPT !.coe_version = kube_version]
              /\ ApplySignal(Head(pass.todo), kcp, None, ControlPlaneState(kcp),
                             IF cluster.coe_version # kube_version
                             THEN <<Ev("cluster.save", "coe_version")>> ELSE <<>>)
    /\ UNCHANGED <<appcred, pre>>

\* _update_worker_nodegroup_status on a machine deployment fetched and, when
\* it asks for them, the machines found
DeriveWorker ==
    /\ pc = "signal"
    /\ Head(pass.todo).role # NODE_GROUP_ROLE_CONTROLLER
    /\ \E md \in AllMachineDeployments \cup {NoObject} :
          LET nodegroup == Head(pass.todo)
          IN  IF AsksForMachines(md, nodegroup)
              THEN \E machines \in {<<>>, <<[name |-> "machine"]>>} :
                      ApplySignal(nodegroup, md, Some(machines),
                                  WorkerState(md, nodegroup, machines # <<>>), <<>>)
              ELSE ApplySignal(nodegroup, md, None,
                               WorkerState(md, nodegroup, FALSE), <<>>)
    /\ UNCHANGED <<cluster, appcred, pre>>

NextSignal == DeriveControlPlane \/ DeriveWorker

SpecSignal == InitSignal /\ [][NextSignal]_vars

-----------------------------------------------------------------------------
(* The resource client on its own (kubernetes.py): Resource.fetch on every
   kind of response, Resource.fetch_all_by_label page by page *)

MaxRequests == 4

StatusCodes == {100, 200, 204, 299, 301, 304, 400, 403, 404, 409, 500, 503}

Tokens == {"a", "b"}

\* The request a page answers: the continue parameter, "" for the request
\* that carries none
PageKeys == {""} \cup Tokens

ItemsOf(key, n) == [k \in 1..n |-> <<key, k>>]

\* A page of a list: its items and metadata.continue (None when the server
\* does not return the key), or an error response
PagesOf(key) ==
    {[code |-> 200, items |-> ItemsOf(key, n), continue |-> token] :
        n \in 0..1, token \in {None, Some("")} \cup {Some(t) : t \in Tokens}}
    \cup {[code |-> 500, items |-> <<>>, continue |-> None]}

Servers ==
    {server \in [PageKeys -> UNION {PagesOf(key) : key \in PageKeys}] :
        \A key \in PageKeys : server[key] \in PagesOf(key)}

InitClient ==
    /\ cluster = [status |-> CREATE_IN_PROGRESS, api_address |-> None,
                  coe_version |-> None, stack_id |-> Some(ReleaseName)]
    /\ nodegroups = <<>>
    /\ appcred = "managed"
    /\ pc = "client"
    /\ pass = [call |-> "none"]
    /\ log = <<>>
    /\ pre = Started("none")

\* Resource.fetch
ClientFetch ==
    /\ pc = "client"
    /\ \E code \in StatusCodes :
          LET resp == [code |-> code, body |-> [present |-> TRUE, phase |-> None]]
          IN  /\ pass' = [call |-> "fetch", resp |-> resp, result |-> Fetch(resp)]
              /\ log' = <<Ev("GET", None)>>
    /\ pc' = "client_done"
    /\ UNCHANGED <<cluster, nodegroups, appcred, pre>>

\* Resource.fetch_all_by_label is called: continue_token = ""
StartList ==
    /\ pc = "client"
    /\ \E server \in Servers :
          pass' = [call |-> "list", server |-> server, continue_token |-> "",
                   yielded |-> <<>>, response |-> server[""], recording |-> TRUE,
                   outcome |-> "running"]
    /\ pc' = "list_request"
    /\ UNCHANGED <<cluster, nodegroups, appcred, log, pre>>

\* The head of the loop: the continue parameter is sent only for a non-empty
\* token; the requests are recorded up to MaxRequests of them
ListRequest ==
    /\ pc = "list_request"
    /\ LET param == IF pass.continue_token # ""
                    THEN Some(pass.continue_token) ELSE None
           recording == Len(log) < MaxRequests
       IN  /\ log' = IF recording THEN Append(log, Ev("GET", param)) ELSE log
           /\ pass' = [pass EXCEPT !.response = pass.server[pass.continue_token],
                                   !.recording = recording]
    /\ pc' = "list_response"
    /\ UNCHANGED <<cluster, nodegroups, appcred, pre>>

\* The rest of the loop: raise_for_status, yield from the items, read
\* metadata["continue"] (a KeyError when the key is missing), break on an
\* empty token
ListResponse ==
    /\ pc = "list_response"
    /\ LET response == pass.response
           yielded == IF pass.recording THEN pass.yielded \o response.items
                      ELSE pass.yielded
       IN  IF RaiseForStatus(response.code)
           THEN /\ pass' = [pass EXCEPT !.outcome = "HTTPError"]
                /\ pc' = "client_done"
           ELSE IF response.continue = None
           THEN /\ pass' = [pass EXCEPT !.yielded = yielded, !.outcome = "KeyError"]
                /\ pc' = "client_done"
           ELSE IF response.continue[1] = ""
           THEN /\ pass' = [pass EXCEPT !.yielded = yielded,
                                        !.continue_token = "",
                                        !.outcome = "returned"]
                /\ pc' = "client_done"
           ELSE /\ pass' = [pass EXCEPT !.yielded = yielded,
                                        !.continue_token = response.continue[1]]
                /\ pc' = "list_request"
    /\ UNCHANGED <<cluster, nodegroups, appcred, log, pre>>

NextClient == ClientFetch \/ StartList \/ ListRequest \/ ListResponse

SpecClient == InitClient /\ [][NextClient]_vars

\* The caller goes on consuming the generator: every step of a call in
\* progress is eventually taken
SpecClientFair == SpecClient /\ WF_vars(NextClient)

-----------------------------------------------------------------------------
(* The four operations of a Resource (kubernetes.py) with their scope
   assertion, and Resource.apply with the body it sends *)

\* The resource types: class attributes as Resource.__init__ completes them
NamespaceKind ==
    [kind |-> "Namespace", api_version |-> "v1", plural_name |-> "namespaces",
     namespaced |-> FALSE]

SecretKind ==
    [kind |-> "Secret", api_version |-> "v1", plural_name |-> "secrets",
     namespaced |-> TRUE]

ManifestsKind ==
    [kind |-> "Manifests", api_version |-> "addons.stackhpc.com/v1alpha1",
     plural_name |-> "manifests", namespaced |-> TRUE]

ResourceKinds == {NamespaceKind, SecretKind, ManifestsKind}

\* The namespace argument: None, an empty string, a namespace
NamespaceArgs == {None, Some(""), Some("magnum-ns")}

\* Resource.prepare_path; the core API has no "/" in its version
PreparePath(self, name, namespace) ==
    [prefix |-> IF self.api_version = "v1" THEN "/api" ELSE "/apis",
     api_version |-> self.api_version,
     namespace |-> IF Truthy(namespace) THEN namespace ELSE None,
     plural_name |-> self.plural_name,
     name |-> IF Truthy(name) THEN name ELSE None]

\* A variant of ScopeAssertion that checks namespaced kinds only
ScopeAssertionNamespacedOnly(self, namespace) ==
    self.namespaced => Truthy(namespace)

\* assert self.namespaced == bool(namespace)
ScopeAssertion(self, namespace) == self.namespaced = Truthy(namespace)

\* A dict is a record of its keys, a key that is not there being None
EmptyMetadata == [name |-> None, namespace |-> None, labels |-> None]

EmptyDict == [kind |-> None, apiVersion |-> None, metadata |-> None,
              stringData |-> None]

Metadatas ==
    [name : {None, Some("other")}, namespace : {None, Some("elsewhere")},
     labels : {None, Some("l")}]

\* The data argument of apply: None, {} or a dict that may carry the stamped
\* keys already
DataArgs ==
    {None} \cup
    {Some(d) : d \in [kind : {None, Some("Other")},
                      apiVersion : {None, Some("v0")},
                      metadata : {None} \cup {Some(m) : m \in Metadatas},
                      stringData : {None, Some("s")}]}

\* A variant of ApplyBody that keeps the keys the caller's data carries
ApplyBodyKeepingCallers(self, name, data, namespace) ==
    LET body_data == IF data # None THEN data[1] ELSE EmptyDict
        metadata == IF body_data.metadata = None THEN EmptyMetadata
                    ELSE body_data.metadata[1]
        named == IF metadata.name = None
                 THEN [metadata EXCEPT !.name = Some(name)] ELSE metadata
    IN  [body_data EXCEPT
            !.apiVersion = IF @ = None THEN Some(self.api_version) ELSE @,
            !.kind = IF @ = None THEN Some(self.kind) ELSE @,
            !.metadata = Some(IF Truthy(namespace) /\ named.namespace = None
                              THEN [named EXCEPT !.namespace = namespace]
                              ELSE named)]

\* Resource.apply, the body: a deep copy of the data (or {}), stamped with
\* apiVersion, kind, metadata.name and, for a namespace, metadata.namespace
ApplyBody(self, name, data, namespace) ==
    LET body_data == IF data # None /\ data[1] # EmptyDict THEN data[1]
                     ELSE EmptyDict
        metadata == IF body_data.metadata = None THEN EmptyMetadata
                    ELSE body_data.metadata[1]
        named == [metadata EXCEPT !.name = Some(name)]
    IN  [body_data EXCEPT
            !.apiVersion = Some(self.api_version),
            !.kind = Some(self.kind),
            !.metadata = Some(IF Truthy(namespace)
                              THEN [named EXCEPT !.namespace = namespace]
                              ELSE named)]

\* The caller's data object once apply has built the body: copy.deepcopy
\* leaves it as it was
DataAfterApply(data, body) == data

\* The PATCH that apply sends
ApplyRequest(self, name, data, namespace) ==
    [method |-> "PATCH",
     path |-> PreparePath(self, Some(name), namespace),
     json |-> ApplyBody(self, name, data, namespace),
     headers |-> "application/apply-patch+yaml",
     params |-> [fieldManager |-> "magnum", force |-> "true"]]

NoRequest == <<>>

Called(call, self, name, namespace, data, outcome) ==
    [call |-> call, self |-> self, name |-> name, namespace |-> namespace,
     data |-> data, given |-> data, outcome |-> outcome, times |-> 1]

InitResource ==
    /\ cluster = [status |-> CREATE_IN_PROGRESS, api_address |-> None,
                  coe_version |-> None, stack_id |-> Some(ReleaseName)]
    /\ nodegroups = <<>>
    /\ appcred = "managed"
    /\ pc = "resource"
    /\ pass = [call |-> "none"]
    /\ log = NoRequest
    /\ pre = Started("none")

\* Resource.fetch
ResourceFetch ==
    /\ pc = "resource"
    /\ \E self \in ResourceKinds, namespace \in NamespaceArgs,
          name \in {None, Some("obj")}, code \in {200, 404, 500} :
          IF ~ScopeAssertion(self, namespace) \/ name = None
          THEN /\ pass' = Called("fetch", self, name, namespace, None, "AssertionError")
               /\ log' = NoRequest
          ELSE LET got == Fetch([code |-> code, body |-> [present |-> TRUE]])
               IN  /\ pass' = Called("fetch", self, name, namespace, None,
                                     IF got.raised THEN "HTTPError" ELSE "returned")
                   /\ log' = <<[method |-> "GET",
                                path |-> PreparePath(self, name, namespace)]>>
    /\ pc' = "resource_done"
    /\ UNCHANGED <<cluster, nodegroups, appcred, pre>>

\* Resource.fetch_all_by_label, consumed by list(): one page
ResourceList ==
    /\ pc = "resource"
    /\ \E self \in ResourceKinds, namespace \in NamespaceArgs, code \in {200, 500} :
          IF ~ScopeAssertion(self, namespace)
          THEN /\ pass' = Called("fetch_all_by_label", self, None, namespace, None,
                                 "AssertionError")
               /\ log' = NoRequest
          ELSE /\ pass' = Called("fetch_all_by_label", self, None, namespace, None,
                                 IF RaiseForStatus(code) THEN "HTTPError" ELSE "returned")
               /\ log' = <<[method |-> "GET",
                            path |-> PreparePath(self, None, namespace)]>>
    /\ pc' = "resource_done"
    /\ UNCHANGED <<cluster, nodegroups, appcred, pre>>

\* Resource.apply
ResourceApply ==
    /\ pc = "resource"
    /\ \E self \in ResourceKinds, namespace \in NamespaceArgs,
          name \in {"obj", "magnum-ns"}, data \in DataArgs, code \in {200, 500} :
          IF ~ScopeAssertion(self, namespace)
          THEN /\ pass' = Called("apply", self, Some(name), namespace, data,
                                 "AssertionError")
               /\ log' = NoRequest
          ELSE LET request == ApplyRequest(self, name, data, namespace)
               IN  /\ pass' = [Called("apply", self, Some(name), namespace, data,
                                      IF RaiseForStatus(code) THEN "HTTPError"
                                      ELSE "returned")
                               EXCEPT !.data = DataAfterApply(data, request.json)]
                   /\ log' = <<request>>
    /\ pc' = "resource_done"
    /\ UNCHANGED <<cluster, nodegroups, appcred, pre>>

\* The caller applies the same name, namespace and data object once more
ResourceApplyAgain ==
    /\ pc = "resource_done"
    /\ pass.call = "apply"
    /\ pass.outcome # "AssertionError"
    /\ pass.times = 1
    /\ \E code \in {200, 500} :
          LET request == ApplyRequest(pass.self, pass.name[1], pass.data,
                                      pass.namespace)
          IN  /\ pass' = [pass EXCEPT
                            !.data = DataAfterApply(pass.data, request.json),
                            !.outcome = IF RaiseForStatus(code) THEN "HTTPError"
                                        ELSE "returned",
                            !.times = 2]
              /\ log' = Append(log, request)
    /\ UNCHANGED <<cluster, nodegroups, appcred, pc, pre>>

\* Resource.delete_all_by_label
ResourceDelete ==
    /\ pc = "resource"
    /\ \E self \in ResourceKinds, namespace \in NamespaceArgs, code \in {200, 500} :
          IF ~ScopeAssertion(self, namespace)
          THEN /\ pass' = Called("delete_all_by_label", self, None, namespace, None,
                                 "AssertionError")
               /\ log' = NoRequest
          ELSE /\ pass' = Called("delete_all_by_label", self, None, namespace, None,
                                 IF DeleteAllByLabel(code) THEN "HTTPError"
                                 ELSE "returned")
               /\ log' = <<[method |-> "DELETE",
                            path |-> PreparePath(self, None, namespace)]>>
    /\ pc' = "resource_done"
    /\ UNCHANGED <<cluster, nodegroups, appcred, pre>>

NextResource ==
    \/ ResourceFetch
    \/ ResourceList
    \/ ResourceApply
    \/ ResourceApplyAgain
    \/ ResourceDelete

SpecResource == InitResource /\ [][NextResource]_vars

-----------------------------------------------------------------------------
(* A cluster being created, over two passes that find different remote
   objects *)

InitConverge ==
    /\ \E coe_version \in {None, Some("v1.28")} :
          cluster = [status |-> CREATE_IN_PROGRESS, api_address |-> None,
                     coe_version |-> coe_version, stack_id |-> Some(ReleaseName)]
    /\ \E is_default \in BOOLEAN :
          nodegroups \in {<<ControllerGroup, WorkerGroup(is_default)>>,
                          <<WorkerGroup(is_default), ControllerGroup>>}
    /\ appcred = "managed"
    /\ pc = "converge"
    /\ pass = [runs |-> 0]
    /\ log = <<>>
    /\ pre = Started("none")

\* What the API may return while the cluster is being created: the control
\* plane absent, present but not ready or ready, the machine deployment
\* absent, scaling up or running, no machine listed
ConvergeRemotes ==
    {remote \in RemoteStates :
        /\ remote.kcp.present =>
              remote.kcp.conditions = KcpConditions({}) /\ remote.kcp.status_version # None
        /\ remote.md.present => remote.md.phase \in {Some("Running"), Some("ScalingUp")}
        /\ remote.machines = <<>>}

\* One pass on what the API returns at that time; the pass keeps the
\* records it started from and what the pass before it found
RunPassAnew ==
    /\ pc = "converge"
    /\ pass.runs < 2
    /\ \E remote \in ConvergeRemotes :
          LET result == PassResult(cluster, nodegroups, appcred, remote)
          IN  /\ cluster' = result.cluster
              /\ nodegroups' = result.nodegroups
              /\ appcred' = result.appcred
              /\ log' = result.writes
              /\ pass' = [runs |-> pass.runs + 1,
                          remote |-> remote,
                          before |-> [cluster |-> cluster, nodegroups |-> nodegroups],
                          earlier |-> IF pass.runs = 0
                                      THEN [kcp |-> FALSE, md |-> FALSE, runs |-> 0]
                                      ELSE [kcp |-> pass.remote.kcp.present,
                                            md |-> pass.remote.md.present,
                                            runs |-> pass.runs]]
    /\ pre' = [op |-> "update_cluster_status", cluster |-> cluster]
    /\ UNCHANGED pc

SpecConverge == InitConverge /\ [][RunPassAnew]_vars

-----------------------------------------------------------------------------
(* Deletion passes in sequence: update_cluster_status on a cluster in
   DELETE_IN_PROGRESS, call by call, with calls that can fail and passes
   that are invoked again *)

MaxFaults == 3

\* What the passes have done so far: the faults met, whether the cluster
\* object is still there, and which purges have been carried out
NoCleanup ==
    [faults |-> 0, remote |-> TRUE, secrets_purged |-> FALSE,
     cred_purged |-> FALSE, outcome |-> "none"]

InitDelete ==
    /\ \E stack_id \in {None, Some(ReleaseName)} :
          cluster = [status |-> DELETE_IN_PROGRESS, api_address |-> None,
                     coe_version |-> None, stack_id |-> stack_id]
    /\ nodegroups = <<>>
    /\ appcred = "managed"
    /\ pc = "delete_idle"
    /\ pass \in {NoCleanup, [NoCleanup EXCEPT !.remote = FALSE]}
    /\ log = <<>>
    /\ pre = Started("none")

\* A call fails for a reason that passes: a connection error, a 5xx, a
\* database error; at most MaxFaults of them are followed
Faulty == pass.faults < MaxFaults

Fault(events) ==
    /\ pc' = "delete_idle"
    /\ pass' = [pass EXCEPT !.faults = @ + 1, !.outcome = "raised"]
    /\ log' = log \o events

\* The Helm uninstall completes: the cluster object is gone
RemoteGone ==
    /\ pc = "delete_idle"
    /\ pass.remote
    /\ pass' = [pass EXCEPT !.remote = FALSE]
    /\ UNCHANGED <<cluster, nodegroups, appcred, pc, log, pre>>

\* update_cluster_status up to the branch on the cluster status
DeleteBegin ==
    /\ pc = "delete_idle"
    /\ cluster.status = DELETE_IN_PROGRESS
    /\ pre' = [op |-> "update_cluster_status", cluster |-> cluster]
    /\ IF cluster.stack_id = None
       THEN /\ pc' = "purge_secrets"
            /\ log' = <<>>
            /\ pass' = [pass EXCEPT !.outcome = "running"]
       ELSE \/ /\ pass.remote
               /\ pc' = "delete_idle"
               /\ log' = <<Ev("get_capi_cluster", cluster.stack_id[1])>>
               /\ pass' = [pass EXCEPT !.outcome = "returned"]
            \/ /\ ~pass.remote
               /\ pc' = "purge_secrets"
               /\ log' = <<Ev("get_capi_cluster", cluster.stack_id[1])>>
               /\ pass' = [pass EXCEPT !.outcome = "running"]
            \/ /\ Faulty
               /\ pc' = "delete_idle"
               /\ log' = <<Ev("get_capi_cluster", cluster.stack_id[1])>>
               /\ pass' = [pass EXCEPT !.faults = @ + 1, !.outcome = "raised"]
    /\ UNCHANGED <<cluster, nodegroups, appcred>>

\* _update_status_deleting: delete_all_secrets_by_label; a DELETE of the
\* collection succeeds whether or not a secret matches
PurgeSecrets ==
    /\ pc = "purge_secrets"
    /\ LET purge == Ev("delete_all_secrets_by_label", "magnum.openstack.org/cluster-uuid")
       IN  \/ /\ ~DeleteAllByLabel(200)
              /\ pc' = "purge_credential"
              /\ pass' = [pass EXCEPT !.secrets_purged = TRUE]
              /\ log' = Append(log, purge)
           \/ /\ Faulty
              /\ DeleteAllByLabel(500)
              /\ Fault(<<purge>>)
    /\ UNCHANGED <<cluster, nodegroups, appcred, pre>>

\* _update_status_deleting: app_creds.delete_app_cred
PurgeCredential ==
    /\ pc = "purge_credential"
    /\ LET cred == DeleteAppCred(appcred)
       IN  \/ /\ cred.raised
              /\ pc' = "delete_idle"
              /\ pass' = [pass EXCEPT !.outcome = "raised"]
              /\ log' = Append(log, Ev("delete_app_cred", "raised"))
              /\ UNCHANGED appcred
           \/ /\ ~cred.raised
              /\ appcred' = "missing"
              /\ pc' = "save_deleted"
              /\ pass' = [pass EXCEPT !.cred_purged = TRUE]
              /\ log' = Append(log, Ev("delete_app_cred", "deleted"))
           \/ /\ Faulty
              /\ Fault(<<Ev("delete_app_cred", "unavailable")>>)
              /\ UNCHANGED appcred
    /\ UNCHANGED <<cluster, nodegroups, pre>>

\* _update_status_deleting: cluster.status = DELETE_COMPLETE; cluster.save()
SaveDeleted ==
    /\ pc = "save_deleted"
    /\ \/ /\ cluster' = [cluster EXCEPT !.status = DELETE_COMPLETE]
          /\ pc' = "delete_idle"
          /\ pass' = [pass EXCEPT !.outcome = "returned"]
          /\ log' = Append(log, Ev("cluster.save", "status"))
       \/ /\ Faulty
          /\ Fault(<<Ev("cluster.save", "raised")>>)
          /\ UNCHANGED cluster
    /\ UNCHANGED <<nodegroups, appcred, pre>>

NextDelete ==
    \/ RemoteGone
    \/ DeleteBegin
    \/ PurgeSecrets
    \/ PurgeCredential
    \/ SaveDeleted

SpecDelete == InitDelete /\ [][NextDelete]_vars

\* The scheduler goes on invoking the pass, a pass that was started runs on,
\* and the uninstall completes
SpecDeleteFair ==
    /\ SpecDelete
    /\ WF_vars(RemoteGone)
    /\ WF_vars(DeleteBegin)
    /\ WF_vars(PurgeSecrets \/ PurgeCredential \/ SaveDeleted)

-----------------------------------------------------------------------------
(* app_creds.delete_app_cred on its own: strings are sequences of
   characters, the literal "magnum-" being one of them *)

\* A variant of StartsWith that asks for the whole string
SameString(name, prefix) == name = prefix

\* str.startswith
StartsWith(name, prefix) ==
    /\ Len(name) >= Len(prefix)
    /\ \A i \in 1..Len(prefix) : name[i] = prefix[i]

ClusterUuids == {<<"a", "1">>, <<"a", "1", "2">>, <<"b", "7">>}

\* Names of application credentials: Magnum's for a cluster, with and
\* without a suffix, and names that are not Magnum's
CredentialNames ==
    {<<"magnum-">> \o uuid : uuid \in ClusterUuids}
    \cup {<<"magnum-">> \o uuid \o <<"-", "x">> : uuid \in ClusterUuids}
    \cup {<<"other-">> \o uuid : uuid \in ClusterUuids}
    \cup {<<"magnum-">>, <<>>}

\* kst.client.application_credentials.get: NotFound, another error, or the
\* credential
CredentialLookups ==
    {[found |-> FALSE, error |-> "NotFound", name |-> <<>>],
     [found |-> FALSE, error |-> "Unavailable", name |-> <<>>]}
    \cup {[found |-> TRUE, error |-> "", name |-> name] : name \in CredentialNames}

\* delete_app_cred(cluster, app_cred_id): the exception it ends with ("" for
\* none) and the calls it made on the identity service
DeleteAppCredCall(uuid, lookup, delete_ok) ==
    LET get == Ev("application_credentials.get", "app_cred_id")
    IN  IF ~lookup.found
        THEN [raised |-> IF lookup.error = "NotFound"
                         THEN "ApplicationCredentialError" ELSE lookup.error,
              calls |-> <<get>>]
        ELSE IF ~StartsWith(lookup.name, <<"magnum-">> \o uuid)
        THEN [raised |-> "ApplicationCredentialError", calls |-> <<get>>]
        ELSE [raised |-> IF delete_ok THEN "" ELSE "Unavailable",
              calls |-> <<get, Ev("app_cred.delete", "app_cred_id")>>]

InitAppCred ==
    /\ cluster = [status |-> DELETE_IN_PROGRESS, api_address |-> None,
                  coe_version |-> None, stack_id |-> Some(ReleaseName)]
    /\ nodegroups = <<>>
    /\ appcred = "managed"
    /\ pc = "app_cred"
    /\ pass \in [uuid : ClusterUuids, lookup : CredentialLookups,
                 delete_ok : BOOLEAN, raised : {"none"}]
    /\ log = <<>>
    /\ pre = Started("none")

CallDeleteAppCred ==
    /\ pc = "app_cred"
    /\ LET result == DeleteAppCredCall(pass.uuid, pass.lookup, pass.delete_ok)
       IN  /\ pass' = [pass EXCEPT !.raised = result.raised]
           /\ log' = result.calls
    /\ pc' = "app_cred_done"
    /\ UNCHANGED <<cluster, nodegroups, appcred, pre>>

SpecAppCred == InitAppCred /\ [][CallDeleteAppCred]_vars

-----------------------------------------------------------------------------
(* Driver.create_cluster call by call, each call able to raise, and the
   operation invoked again *)

MaxCreateCalls == 2

\* A variant of CreateOrder that installs the release before the secrets
CreateOrderInstallFirst ==
    <<"validate_master", "validate_nodegroups", "generate_release_name",
      "ensure_namespace", "update_helm_release", "create_appcred_secret",
      "ensure_certificate_secrets">>

\* The statements of create_cluster, in the order of the source
CreateOrder ==
    <<"validate_master", "validate_nodegroups", "generate_release_name",
      "ensure_namespace", "create_appcred_secret", "ensure_certificate_secrets",
      "update_helm_release">>

\* The statement after step; after the last one the operation returns
After(step) ==
    LET i == CHOOSE k \in 1..Len(CreateOrder) : CreateOrder[k] = step
    IN  IF i = Len(CreateOrder) THEN "create_idle" ELSE CreateOrder[i + 1]

\* ca_certificates.get_certificate_string_data(...).items()
Certificates == <<"ca", "etcd">>

\* short_id.generate_id()
RandomBits == {"x7k2", "q9m4"}

GeneratedName(random_bit) ==
    IF random_bit = "x7k2" THEN ReleaseName ELSE "cluster-q9m4"

\* A variant of GenerateReleaseName that generates a name on every call
GenerateReleaseNameAlways(c, random_bit) ==
    [cluster |-> [c EXCEPT !.stack_id = Some(GeneratedName(random_bit))],
     saved |-> TRUE]

\* Driver._generate_release_name: nothing when there is a release name,
\* else a new one, saved
GenerateReleaseName(c, random_bit) ==
    IF Truthy(c.stack_id)
    THEN [cluster |-> c, saved |-> FALSE]
    ELSE [cluster |-> [c EXCEPT !.stack_id = Some(GeneratedName(random_bit))],
          saved |-> TRUE]

InitCreate ==
    /\ cluster = [status |-> CREATE_IN_PROGRESS, api_address |-> None,
                  coe_version |-> None, stack_id |-> None]
    /\ \E is_default \in BOOLEAN :
          nodegroups \in {<<ControllerGroup, WorkerGroup(is_default)>>,
                          <<WorkerGroup(is_default), ControllerGroup>>}
    /\ appcred = "managed"
    /\ pc = "create_idle"
    /\ pass = [calls |-> 0, todo |-> <<>>, certs |-> <<>>, outcome |-> "none"]
    /\ log = <<>>
    /\ pre = Started("none")

\* create_cluster is called
CreateStart ==
    /\ pc = "create_idle"
    /\ pass.calls < MaxCreateCalls
    /\ pre' = Started("create_cluster")
    /\ log' = <<>>
    /\ pass' = [calls |-> pass.calls + 1, todo |-> nodegroups,
                certs |-> Certificates, outcome |-> "running"]
    /\ pc' = CreateOrder[1]
    /\ UNCHANGED <<cluster, nodegroups, appcred>>

\* A call of create_cluster raises: the operation ends there
CreateRaises(call) ==
    /\ pc' = "create_idle"
    /\ pass' = [pass EXCEPT !.outcome = "raised"]
    /\ log' = Append(log, call)

\* A call of create_cluster returns: on to the next statement, or the
\* operation returns
CreateGoesOn(calls, next, locals) ==
    /\ pc' = next
    /\ pass' = IF next = "create_idle"
               THEN [locals EXCEPT !.outcome = "returned"] ELSE locals
    /\ log' = log \o calls

\* self._validate_allowed_flavor(context, cluster.master_flavor_id)
ValidateMaster ==
    /\ pc = "validate_master"
    /\ LET call == Ev("validate_allowed_flavor", "master_flavor_id")
       IN  \/ CreateGoesOn(<<call>>, After(pc), pass)
           \/ CreateRaises(call)
    /\ UNCHANGED <<cluster, nodegroups, appcred, pre>>

\* for ng in nodegroups: self._validate_allowed_flavor(context, ng.flavor_id)
ValidateNodegroups ==
    /\ pc = "validate_nodegroups"
    /\ LET call == Ev("validate_allowed_flavor", Head(pass.todo).name)
           todo == Tail(pass.todo)
       IN  \/ CreateGoesOn(<<call>>, IF todo = <<>> THEN After(pc) ELSE pc,
                           [pass EXCEPT !.todo = todo])
           \/ CreateRaises(call)
    /\ UNCHANGED <<cluster, nodegroups, appcred, pre>>

\* self._generate_release_name(cluster)
GenerateReleaseNameStep ==
    /\ pc = "generate_release_name"
    /\ \E random_bit \in RandomBits :
          LET generated == GenerateReleaseName(cluster, random_bit)
              save == Ev("cluster.save", "stack_id")
          IN  IF generated.saved
              THEN \/ /\ cluster' = generated.cluster
                      /\ CreateGoesOn(<<save>>, After(pc), pass)
                   \/ /\ CreateRaises(save)
                      /\ UNCHANGED cluster
              ELSE /\ CreateGoesOn(<<>>, After(pc), pass)
                   /\ UNCHANGED cluster
    /\ UNCHANGED <<nodegroups, appcred, pre>>

\* self._k8s_client.ensure_namespace(...)
EnsureNamespace ==
    /\ pc = "ensure_namespace"
    /\ LET call == Ev("ensure_namespace", cluster.stack_id)
       IN  \/ CreateGoesOn(<<call>>, After(pc), pass)
           \/ CreateRaises(call)
    /\ UNCHANGED <<cluster, nodegroups, appcred, pre>>

\* self._create_appcred_secret(context, cluster)
CreateAppcredSecret ==
    /\ pc = "create_appcred_secret"
    /\ LET call == Ev("apply_secret", <<cluster.stack_id, "cloud-credentials">>)
       IN  \/ CreateGoesOn(<<call>>, After(pc), pass)
           \/ CreateRaises(call)
    /\ UNCHANGED <<cluster, nodegroups, appcred, pre>>

\* self._ensure_certificate_secrets(context, cluster): one apply a certificate
EnsureCertificateSecrets ==
    /\ pc = "ensure_certificate_secrets"
    /\ LET call == Ev("apply_secret", <<cluster.stack_id, Head(pass.certs)>>)
           certs == Tail(pass.certs)
       IN  \/ CreateGoesOn(<<call>>, IF certs = <<>> THEN After(pc) ELSE pc,
                           [pass EXCEPT !.certs = certs])
           \/ CreateRaises(call)
    /\ UNCHANGED <<cluster, nodegroups, appcred, pre>>

\* self._update_helm_release(context, cluster)
UpdateHelmRelease ==
    /\ pc = "update_helm_release"
    /\ LET call == Ev("install_or_upgrade", cluster.stack_id)
       IN  \/ CreateGoesOn(<<call>>, After(pc), pass)
           \/ CreateRaises(call)
    /\ UNCHANGED <<cluster, nodegroups, appcred, pre>>

NextCreate ==
    \/ CreateStart
    \/ ValidateMaster
    \/ ValidateNodegroups
    \/ GenerateReleaseNameStep
    \/ EnsureNamespace
    \/ CreateAppcredSecret
    \/ EnsureCertificateSecrets
    \/ UpdateHelmRelease

SpecCreate == InitCreate /\ [][NextCreate]_vars

-----------------------------------------------------------------------------
(* _update_all_nodegroups_status on its own: the loop over the node groups
   and the value it returns *)

InitGroups ==
    /\ cluster = [status |-> UPDATE_IN_PROGRESS, api_address |-> None,
                  coe_version |-> None, stack_id |-> Some(ReleaseName)]
    /\ \E controller, worker \in {CREATE_IN_PROGRESS, UPDATE_COMPLETE,
                                  DELETE_IN_PROGRESS, CREATE_FAILED},
          is_default \in BOOLEAN :
          nodegroups \in
            {<<[ControllerGroup EXCEPT !.status = controller],
               [WorkerGroup(is_default) EXCEPT !.status = worker]>>,
             <<[WorkerGroup(is_default) EXCEPT !.status = worker],
               [ControllerGroup EXCEPT !.status = controller]>>}
    /\ appcred = "managed"
    /\ pc = "groups"
    /\ pass = [returned |-> "none"]
    /\ log = <<>>
    /\ pre = Started("none")

\* _update_all_nodegroups_status(cluster): the records it leaves, the list
\* it builds and the value it returns
UpdateGroups ==
    /\ pc = "groups"
    /\ \E remote \in RemoteStates :
          LET start == [cluster |-> cluster, nodegroups |-> nodegroups,
                        retained |-> <<>>, writes |-> <<>>]
              result == UpdateAllNodegroups(nodegroups, remote, start)
          IN  /\ cluster' = result.cluster
              /\ nodegroups' = result.nodegroups
              /\ log' = result.writes
              /\ pass' = [returned |-> NodegroupsInProgress(result.retained),
                          retained |-> result.retained,
                          remote |-> remote,
                          before |-> nodegroups]
    /\ pc' = "groups_done"
    /\ pre' = Started("_update_all_nodegroups_status")
    /\ UNCHANGED appcred

SpecGroups == InitGroups /\ [][UpdateGroups]_vars

-----------------------------------------------------------------------------
(* Node counts of a node group: _get_node_counts,
   _validate_allowed_node_counts and _get_autoscale_values *)

MaxCount == 3

Counts == 0..MaxCount

\* A label is text: a sequence of characters
Digits == {"0", "1", "2", "3", "4", "5", "6", "7", "8", "9"}

DigitValue(c) ==
    CASE c = "0" -> 0 [] c = "1" -> 1 [] c = "2" -> 2 [] c = "3" -> 3
      [] c = "4" -> 4 [] c = "5" -> 5 [] c = "6" -> 6 [] c = "7" -> 7
      [] c = "8" -> 8 [] c = "9" -> 9

\* the characters re.sub(r"[^a-zA-Z0-9\.\-\/ _]+", "", raw) keeps
LabelCharacters == Digits \cup {"x", "t", "r", "u", "e", "-", "."}

IsLabelCharacter(c) == c \in LabelCharacters

\* _label(cluster, key, default) with the default "" of its two callers: a
\* label that is not set reads as the empty text
Label(labels, key) == SelectSeq(labels[key], IsLabelCharacter)

RECURSIVE DecimalValue(_)
DecimalValue(text) ==
    IF text = <<>> THEN 0
    ELSE 10 * DecimalValue(SubSeq(text, 1, Len(text) - 1))
            + DigitValue(text[Len(text)])

\* int(text) raises ValueError unless the text is a decimal number
IsDecimal(text) ==
    \/ text # <<>> /\ \A i \in 1..Len(text) : text[i] \in Digits
    \/ /\ Len(text) > 1
       /\ text[1] = "-"
       /\ \A i \in 2..Len(text) : text[i] \in Digits

IntOf(text) ==
    IF text[1] = "-" THEN 0 - DecimalValue(Tail(text)) ELSE DecimalValue(text)

\* _get_label_int(cluster, label, default)
GetLabelInt(labels, key, default) ==
    LET cluster_label == Label(labels, key)
    IN  IF cluster_label = <<>> THEN default
        ELSE IF IsDecimal(cluster_label) THEN Some(IntOf(cluster_label))
        ELSE default

\* strutils.bool_from_string(text, default): the texts it knows
BoolFromString(text, default) ==
    IF text \in {<<"t", "r", "u", "e">>, <<"1">>, <<"t">>} THEN TRUE
    ELSE IF text \in {<<"0">>} THEN FALSE
    ELSE default

\* _get_autoscale_enabled(cluster)
GetAutoscaleEnabled(labels) ==
    BoolFromString(Label(labels, "auto_scaling_enabled"), FALSE)

\* _get_node_counts(cluster, nodegroup): (min_nodes, max_nodes), each an
\* optional integer
GetNodeCounts(labels, nodegroup) ==
    LET min_own == IF nodegroup.min_node_count # None
                   THEN nodegroup.min_node_count
                   ELSE Some(nodegroup.node_count)
        max_own == IF nodegroup.max_node_count # None
                   THEN nodegroup.max_node_count
                   ELSE Some(nodegroup.node_count)
        min_default == IF nodegroup.min_node_count = Some(1)
                       THEN Some(nodegroup.node_count)
                       ELSE min_own
    IN  IF nodegroup.is_default_worker
        THEN [min_nodes |-> GetLabelInt(labels, "min_node_count", min_default),
              max_nodes |-> GetLabelInt(labels, "max_node_count", max_own)]
        ELSE [min_nodes |-> min_own, max_nodes |-> max_own]

MinBelowOne == "Min node count must be greater than or equal to 1 for all node groups."
MinAboveCount == "Min node count must be less than or equal to current node count"
MaxBelowMin == "Max node count must be greater than or equal to min node count"

\* variant: the comparison of max with min made before the other two
ValidateAllowedNodeCountsMaxFirst(labels, nodegroup) ==
    LET counts == GetNodeCounts(labels, nodegroup)
        min_nodes == counts.min_nodes
        max_nodes == counts.max_nodes
        Raise(message) == [raised |-> Some(message),
                           min_nodes |-> min_nodes, max_nodes |-> max_nodes]
    IN  IF min_nodes # None /\ max_nodes # None
           /\ max_nodes[1] < min_nodes[1]
        THEN Raise(MaxBelowMin)
        ELSE IF min_nodes # None /\ min_nodes[1] < 1 THEN Raise(MinBelowOne)
        ELSE IF min_nodes # None /\ min_nodes[1] > nodegroup.node_count
        THEN Raise(MinAboveCount)
        ELSE [raised |-> None, min_nodes |-> min_nodes, max_nodes |-> max_nodes]

\* _validate_allowed_node_counts(cluster, nodegroup): the pair it returns,
\* or the message of the NodeGroupInvalidInput it raises
ValidateAllowedNodeCounts(labels, nodegroup) ==
    LET counts == GetNodeCounts(labels, nodegroup)
        min_nodes == counts.min_nodes
        max_nodes == counts.max_nodes
        Raise(message) == [raised |-> Some(message),
                           min_nodes |-> min_nodes, max_nodes |-> max_nodes]
    IN  IF min_nodes # None /\ min_nodes[1] < 1 THEN Raise(MinBelowOne)
        ELSE IF min_nodes # None /\ min_nodes[1] > nodegroup.node_count
        THEN Raise(MinAboveCount)
        ELSE IF min_nodes # None /\ max_nodes # None
                /\ max_nodes[1] < min_nodes[1]
        THEN Raise(MaxBelowMin)
        ELSE [raised |-> None, min_nodes |-> min_nodes, max_nodes |-> max_nodes]

\* _get_autoscale_values(cluster, nodegroup): the values handed to the chart
GetAutoscaleValues(labels, nodegroup) ==
    LET auto_scale == GetAutoscaleEnabled(labels)
        checked == ValidateAllowedNodeCounts(labels, nodegroup)
    IN  IF checked.raised # None THEN checked
        ELSE IF auto_scale /\ checked.min_nodes # checked.max_nodes
        THEN [checked EXCEPT !.raised = None] @@
             [autoscale |-> "true",
              machineCountMin |-> checked.min_nodes,
              machineCountMax |-> checked.max_nodes]
        ELSE checked

LabelTexts == {<<>>, <<"1">>, <<"3">>, <<"x">>, <<"2", "!">>, <<"-", "1">>}

InitCounts ==
    /\ \E node_count \in Counts,
          min_node_count, max_node_count \in {None} \cup {Some(n) : n \in Counts},
          is_default_worker \in BOOLEAN :
          nodegroups = <<[name |-> "workers",
                          node_count |-> node_count,
                          min_node_count |-> min_node_count,
                          max_node_count |-> max_node_count,
                          is_default_worker |-> is_default_worker]>>
    /\ \E min_label, max_label \in LabelTexts,
          auto_scaling \in {<<>>, <<"t", "r", "u", "e">>} :
          cluster = [labels |-> [min_node_count |-> min_label,
                                 max_node_count |-> max_label,
                                 auto_scaling_enabled |-> auto_scaling]]
    /\ appcred = "managed"
    /\ pc = "counts"
    /\ pass = [raised |-> None]
    /\ log = <<>>
    /\ pre = [op |-> "none"]

ValidateCounts ==
    /\ pc = "counts"
    /\ pass' = ValidateAllowedNodeCounts(cluster.labels, nodegroups[1])
    /\ pc' = "validated"
    /\ pre' = [op |-> "_validate_allowed_node_counts"]
    /\ UNCHANGED <<cluster, nodegroups, appcred, log>>

AutoscaleValues ==
    /\ pc = "counts"
    /\ pass' = GetAutoscaleValues(cluster.labels, nodegroups[1])
    /\ pc' = "validated"
    /\ pre' = [op |-> "_get_autoscale_values"]
    /\ UNCHANGED <<cluster, nodegroups, appcred, log>>

NextCounts == ValidateCounts \/ AutoscaleValues

SpecCounts == InitCounts /\ [][NextCounts]_vars

-----------------------------------------------------------------------------
(* delete_cluster and update_cluster_status passes for the same cluster,
   step by step and interleaved. Each invocation works on the cluster
   object and the node group objects it loaded; every save, destroy and
   remote call is a step of its own process. The log keeps the calls to
   the installer and to the cleanup collaborators, the node group records
   destroyed and the saves of the cluster status. *)

Passes == {"first", "second"}

RaceCapiResponses == {RespNotFound, RespObject(CapiCluster({}, None))}

RaceKcpResponses ==
    {RespNotFound, RespObject(KcpObject({}, None, None, None, None, None, None))}

RaceMdResponses == {RespNotFound, RespObject([present |-> TRUE, phase |-> None])}

RaceMachineResponses == {RespList(<<>>), RespList(<<[name |-> "machine"]>>)}

InitRace ==
    /\ \E stack_id \in {None, Some(ReleaseName)} :
          cluster = [status |-> DELETE_IN_PROGRESS, api_address |-> None,
                     coe_version |-> None, stack_id |-> stack_id]
    /\ \E is_default \in BOOLEAN :
          nodegroups = <<ControllerGroup, WorkerGroup(is_default)>>
    /\ appcred = "managed"
    /\ pc = [deleter |-> 1, first |-> "idle", second |-> "idle"]
    /\ pass = [p \in Passes |-> NoPass]
    /\ log = <<>>
    /\ pre = [op |-> "delete_cluster", cluster |-> cluster, todo |-> nodegroups]

\* delete_cluster, one turn of its loop: ng.status = DELETE_IN_PROGRESS;
\* ng.save()
RaceMarkNodegroup ==
    /\ pc.deleter \in 1..Len(pre.todo)
    /\ nodegroups' = [i \in 1..Len(nodegroups) |->
                        IF nodegroups[i].name = pre.todo[pc.deleter].name
                        THEN [nodegroups[i] EXCEPT !.status = DELETE_IN_PROGRESS]
                        ELSE nodegroups[i]]
    /\ pc' = [pc EXCEPT !.deleter = @ + 1]
    /\ UNCHANGED <<cluster, appcred, pass, log, pre>>

\* delete_cluster after its loop: uninstall_release when there is a
\* release name
RaceUninstall ==
    /\ pc.deleter = Len(pre.todo) + 1
    /\ log' = IF pre.cluster.stack_id # None
              THEN Append(log, Ev("uninstall_release", pre.cluster.stack_id[1]))
              ELSE log
    /\ pc' = [pc EXCEPT !.deleter = @ + 1]
    /\ UNCHANGED <<cluster, nodegroups, appcred, pass, pre>>

\* update_cluster_status: _get_capi_cluster, _update_cluster_api_address
\* and the start of the loop of _update_all_nodegroups_status
RaceBegin(p) ==
    /\ pc[p] = "idle"
    /\ cluster.status = DELETE_IN_PROGRESS
    /\ \E resp \in RaceCapiResponses :
          LET capi_cluster == IF cluster.stack_id = None THEN NoObject
                              ELSE Fetch(resp).val
              address == UpdateClusterApiAddress(cluster, capi_cluster)
          IN  /\ cluster' = [cluster EXCEPT !.api_address = address.api_address]
              /\ pass' = [pass EXCEPT ![p] =
                            [NoPass EXCEPT
                                !.capi = capi_cluster,
                                !.todo = IF capi_cluster.present
                                         THEN nodegroups ELSE <<>>,
                                !.outcome = "running"]]
              /\ pc' = [pc EXCEPT ![p] =
                            IF capi_cluster.present /\ nodegroups # <<>>
                            THEN "nodegroups" ELSE "decide"]
    /\ UNCHANGED <<nodegroups, appcred, log, pre>>

\* _update_all_nodegroups_status, one turn of its loop
RaceNodegroup(p) ==
    /\ pc[p] = "nodegroups"
    /\ LET nodegroup == Head(pass[p].todo)
           todo == Tail(pass[p].todo)
           Apply(ng_state) ==
               LET update == UpdateNodegroupStatus(nodegroup, ng_state)
               IN  /\ nodegroups' = StoreNodegroup(update)
                   /\ log' = IF update.destroyed
                             THEN Append(log, Ev("nodegroup.destroy", nodegroup.name))
                             ELSE log
                   /\ pass' = [pass EXCEPT
                                 ![p].todo = todo,
                                 ![p].retained = IF update.returned
                                                 THEN Append(@, update.nodegroup)
                                                 ELSE @]
                   /\ pc' = [pc EXCEPT ![p] = IF todo = <<>> THEN "decide"
                                              ELSE "nodegroups"]
       IN  IF nodegroup.role = NODE_GROUP_ROLE_CONTROLLER
           THEN \E resp \in RaceKcpResponses :
                   LET kcp == Fetch(resp).val
                   IN  /\ cluster' = [cluster EXCEPT !.coe_version = KubeVersion(kcp)]
                       /\ Apply(ControlPlaneState(kcp))
           ELSE \E resp \in RaceMdResponses, machines \in RaceMachineResponses :
                   LET md == Fetch(resp).val
                       machines_exist == /\ AsksForMachines(md, nodegroup)
                                         /\ FetchAllByLabel(machines).val # <<>>
                   IN  /\ UNCHANGED cluster
                       /\ Apply(WorkerState(md, nodegroup, machines_exist))
    /\ UNCHANGED <<appcred, pre>>

\* update_cluster_status, the branch on the status of the cluster object
\* this pass was given, and _update_status_deleting
RaceDecide(p) ==
    /\ pc[p] = "decide"
    /\ pc' = [pc EXCEPT ![p] = "done"]
    /\ LET purge == Ev("delete_all_secrets_by_label", "magnum.openstack.org/cluster-uuid")
           cred == DeleteAppCred(appcred)
       IN  IF pass[p].capi.present
           THEN UNCHANGED <<cluster, appcred, log>>
           ELSE IF cred.raised
           THEN /\ log' = log \o <<purge, Ev("delete_app_cred", "raised")>>
                /\ UNCHANGED <<cluster, appcred>>
           ELSE /\ appcred' = "missing"
                /\ cluster' = [cluster EXCEPT !.status = DELETE_COMPLETE]
                /\ log' = log \o <<purge, Ev("delete_app_cred", "deleted"),
                                   Ev("cluster.save", "status")>>
    /\ UNCHANGED <<nodegroups, pass, pre>>

NextRace ==
    \/ RaceMarkNodegroup
    \/ RaceUninstall
    \/ \E p \in Passes : RaceBegin(p)
    \/ \E p \in Passes : RaceNodegroup(p)
    \/ \E p \in Passes : RaceDecide(p)

SpecRace == InitRace /\ [][NextRace]_vars

-----------------------------------------------------------------------------
(* Properties of a status pass *)

\* A pass has ended: the state it leaves, next to the cluster record it
\* started from (pre.cluster) and the calls it made (log)
PassEnded == pc = "idle" /\ pre.op = "update_cluster_status"

Logged(op) == \E i \in 1..Len(log) : log[i].op = op

\* The position of the first call of op in the log; 0 when it was not made
First(op) ==
    IF Logged(op) THEN CHOOSE i \in 1..Len(log) :
                            log[i].op = op /\ \A j \in 1..(i - 1) : log[j].op # op
    ELSE 0

AddonQueried == Logged("get_manifests_by_label") \/ Logged("get_helm_releases_by_label")

CleanupInvoked == Logged("delete_all_secrets_by_label") \/ Logged("delete_app_cred")

HasTrue(conditions, type) == [type |-> type, status |-> "True"] \in conditions

AllThreeTrue(capi_cluster) ==
    /\ HasTrue(capi_cluster.conditions, "InfrastructureReady")
    /\ HasTrue(capi_cluster.conditions, "ControlPlaneReady")
    /\ HasTrue(capi_cluster.conditions, "Ready")

InProgressSuffix ==
    {CREATE_IN_PROGRESS, UPDATE_IN_PROGRESS, DELETE_IN_PROGRESS, "ROLLBACK_IN_PROGRESS"}

RetainedInProgress ==
    \E i \in 1..Len(pass.retained) : pass.retained[i].status \in InProgressSuffix

\* C1: a pass changes the cluster status to CREATE_COMPLETE or
\* UPDATE_COMPLETE only if, in that pass, the remote cluster object was
\* present, no node group the pass kept has a status ending in _IN_PROGRESS,
\* the conditions InfrastructureReady, ControlPlaneReady and Ready are all
\* "True", and every add-on the query returned has phase Deployed.
C1_CompleteOnlyWhenAllReady ==
    (/\ PassEnded
     /\ cluster.status \in {CREATE_COMPLETE, UPDATE_COMPLETE}
     /\ cluster.status # pre.cluster.status)
    => /\ pass.capi.present
       /\ ~RetainedInProgress
       /\ AllThreeTrue(pass.capi)
       /\ pass.addons # None
       /\ \A i \in 1..Len(pass.addons[1]) : pass.addons[1][i].phase = Some("Deployed")

C1_Witness ==
    /\ PassEnded
    /\ pre.cluster.status = UPDATE_IN_PROGRESS
    /\ cluster.status = UPDATE_COMPLETE
    /\ Len(pass.retained) = 2
    /\ pass.addons # None /\ Len(pass.addons[1]) = 2

\* C2: in CREATE_IN_PROGRESS or UPDATE_IN_PROGRESS, with the three
\* conditions "True" and no node group in progress, a pass whose add-on
\* query returns at least one add-on in phase Failed or Unknown and all the
\* others Deployed sets the status to the matching *_FAILED, wherever in the
\* list the failed add-on is.
C2_FailedAddonFailsCluster ==
    (/\ PassEnded
     /\ pre.cluster.status \in {CREATE_IN_PROGRESS, UPDATE_IN_PROGRESS}
     /\ pass.capi.present
     /\ AllThreeTrue(pass.capi)
     /\ ~RetainedInProgress
     /\ pass.addons # None
     /\ \E i \in 1..Len(pass.addons[1]) :
            pass.addons[1][i].phase \in {Some("Failed"), Some("Unknown")}
     /\ \A i \in 1..Len(pass.addons[1]) :
            pass.addons[1][i].phase \in {Some("Failed"), Some("Unknown"), Some("Deployed")})
    => cluster.status = IF pre.cluster.status = UPDATE_IN_PROGRESS
                        THEN UPDATE_FAILED ELSE CREATE_FAILED

C2_Witness ==
    /\ PassEnded
    /\ pre.cluster.status = UPDATE_IN_PROGRESS
    /\ cluster.status = UPDATE_FAILED
    /\ pass.addons # None /\ Len(pass.addons[1]) = 2
    /\ pass.addons[1][1].phase = Some("Deployed")
    /\ pass.addons[1][2].phase = Some("Unknown")

\* C3, as stated: in CREATE_IN_PROGRESS or UPDATE_IN_PROGRESS, a pass in
\* which the remote cluster object is absent, or after whose node group
\* updates any node group still has a status ending in _IN_PROGRESS, leaves
\* the cluster status unchanged and does not query the add-ons.
C3_AnyGroupInProgressBlocks ==
    (/\ PassEnded
     /\ pass.outcome = "returned"
     /\ pre.cluster.status \in {CREATE_IN_PROGRESS, UPDATE_IN_PROGRESS}
     /\ \/ ~pass.capi.present
        \/ \E i \in 1..Len(nodegroups) : nodegroups[i].status \in InProgressSuffix)
    => /\ cluster.status = pre.cluster.status
       /\ ~AddonQueried

\* C3, amended: in CREATE_IN_PROGRESS or UPDATE_IN_PROGRESS, a pass in which
\* the remote cluster object is absent, or in which any node group the node
\* group updates kept (every group but one being deleted whose remote
\* object and machines are gone) still has a status ending in _IN_PROGRESS,
\* leaves the cluster status unchanged and does not query the add-ons.
C3_RetainedGroupInProgressBlocks ==
    (/\ PassEnded
     /\ pre.cluster.status \in {CREATE_IN_PROGRESS, UPDATE_IN_PROGRESS}
     /\ \/ ~pass.capi.present
        \/ RetainedInProgress)
    => /\ cluster.status = pre.cluster.status
       /\ ~AddonQueried

C3_Witness ==
    /\ PassEnded
    /\ pass.outcome = "returned"
    /\ pre.cluster.status = CREATE_IN_PROGRESS
    /\ pass.capi.present
    /\ AllThreeTrue(pass.capi)
    /\ Len(pass.retained) = 2
    /\ pass.retained[1].status = CREATE_COMPLETE
    /\ pass.retained[2].status = CREATE_IN_PROGRESS

\* C4: in DELETE_IN_PROGRESS, a pass that finds the remote cluster object
\* still present invokes neither cleanup collaborator and leaves the status
\* DELETE_IN_PROGRESS; a pass that finds it absent invokes the secret purge
\* by the cluster-uuid label, then the credential purge, and only after both
\* sets the status to DELETE_COMPLETE and persists it.
C4_DeleteCleanupOrder ==
    (PassEnded /\ pre.cluster.status = DELETE_IN_PROGRESS)
    => /\ pass.capi.present
            => ~CleanupInvoked /\ cluster.status = DELETE_IN_PROGRESS
       /\ (~pass.capi.present /\ ~(Logged("get_capi_cluster") /\ Len(log) = 1
                                   /\ pass.outcome = "raised"))
            => /\ First("delete_all_secrets_by_label") > 0
               /\ log[First("delete_all_secrets_by_label")].arg =
                      "magnum.openstack.org/cluster-uuid"
       /\ Logged("delete_app_cred")
            => /\ First("delete_all_secrets_by_label") > 0
               /\ First("delete_all_secrets_by_label") < First("delete_app_cred")
       /\ cluster.status = DELETE_COMPLETE
            <=> /\ First("delete_app_cred") > 0
                /\ log[First("delete_app_cred")].arg = "deleted"
                /\ First("cluster.save") > First("delete_app_cred")
                /\ log[First("cluster.save")].arg = "status"
       /\ cluster.status \in {DELETE_IN_PROGRESS, DELETE_COMPLETE}
       /\ pass.outcome = "returned" /\ ~pass.capi.present
            => cluster.status = DELETE_COMPLETE

C4_Witness ==
    /\ PassEnded
    /\ pre.cluster.status = DELETE_IN_PROGRESS
    /\ Logged("get_capi_cluster")
    /\ ~pass.capi.present
    /\ cluster.status = DELETE_COMPLETE
    /\ appcred = "missing"

\* The state right after the update of one node group: pass.last holds the
\* record as it was, what was fetched for it and the signal
GroupUpdated == pass.last # NoLast

StillRecorded(name) == \E i \in 1..Len(nodegroups) : nodegroups[i].name = name

RecordOf(name) == nodegroups[CHOOSE i \in 1..Len(nodegroups) : nodegroups[i].name = name]

DeleteStatuses == {DELETE_IN_PROGRESS, DELETE_COMPLETE, "DELETE_FAILED"}

\* C5: a non-default node group record is destroyed only if its status
\* starts with DELETE_, its remote object was fetched as absent in that
\* pass, and, for a worker group, the machines query by the node group
\* label returned no machines.
C5_DestroyOnlyWhenGone ==
    (/\ GroupUpdated
     /\ ~pass.last.before.is_default
     /\ ~StillRecorded(pass.last.name))
    => /\ pass.last.before.status \in DeleteStatuses
       /\ ~pass.last.remote.present
       /\ pass.last.before.role # NODE_GROUP_ROLE_CONTROLLER
            => pass.last.machines = Some(<<>>)
       /\ log[Len(log)] = Ev("nodegroup.destroy", pass.last.name)

C5_Witness ==
    /\ GroupUpdated
    /\ ~pass.last.before.is_default
    /\ pass.last.before.role = "worker"
    /\ pass.last.before.status = DELETE_IN_PROGRESS
    /\ ~StillRecorded(pass.last.name)
    /\ Logged("get_all_machines_by_label")

\* C6: no step of a pass destroys a node group record whose is_default is
\* true, whatever its status and whatever the signal.
C6_DefaultNeverDestroyed ==
    [][pre'.op = "update_cluster_status"
         => \A i \in 1..Len(nodegroups) :
                nodegroups[i].is_default
                    => \E j \in 1..Len(nodegroups') :
                            /\ nodegroups'[j].name = nodegroups[i].name
                            /\ nodegroups'[j].is_default]_vars

C6_Witness ==
    /\ GroupUpdated
    /\ pass.last.before.is_default
    /\ pass.last.before.role = "worker"
    /\ pass.last.before.status = DELETE_IN_PROGRESS
    /\ pass.last.ng_state = NOT_PRESENT
    /\ StillRecorded(pass.last.name)
    /\ \A i \in 1..Len(pass.retained) : pass.retained[i].name # pass.last.name

\* C7: for a worker group whose status starts with DELETE_ and whose
\* machine deployment is absent, if the machines query returns at least one
\* machine the signal is PENDING and the record is kept unchanged.
C7_DeleteRaceGuard ==
    (/\ GroupUpdated
     /\ pass.last.before.role # NODE_GROUP_ROLE_CONTROLLER
     /\ pass.last.before.status \in DeleteStatuses
     /\ ~pass.last.remote.present
     /\ pass.last.machines # None
     /\ Len(pass.last.machines[1]) >= 1)
    => /\ pass.last.ng_state = PENDING
       /\ StillRecorded(pass.last.name)
       /\ RecordOf(pass.last.name) = pass.last.before
       /\ pass.retained[Len(pass.retained)] = pass.last.before
       /\ log[Len(log)].op = "get_all_machines_by_label"

C7_Witness ==
    /\ GroupUpdated
    /\ pass.last.before.role = "worker"
    /\ ~pass.last.before.is_default
    /\ pass.last.before.status = DELETE_IN_PROGRESS
    /\ ~pass.last.remote.present
    /\ pass.last.machines # None
    /\ Len(pass.last.machines[1]) = 1
    /\ StillRecorded(pass.last.name)

CreateStatuses == {CREATE_IN_PROGRESS, CREATE_COMPLETE, CREATE_FAILED}

UpdateStatuses == {UPDATE_IN_PROGRESS, UPDATE_COMPLETE, UPDATE_FAILED}

\* The record of the node group just updated is kept, with this status and
\* nothing else changed
LeftWith(status) ==
    /\ StillRecorded(pass.last.name)
    /\ RecordOf(pass.last.name) = [pass.last.before EXCEPT !.status = status]
    /\ pass.retained[Len(pass.retained)] = RecordOf(pass.last.name)

\* C8: _update_nodegroup_status follows its table for every status and
\* signal: a CREATE_ status with READY becomes CREATE_COMPLETE, with FAILED
\* CREATE_FAILED; an UPDATE_ status with READY becomes UPDATE_COMPLETE, with
\* FAILED UPDATE_FAILED; a CREATE_ or UPDATE_ status with PENDING or
\* NOT_PRESENT is left unchanged; a DELETE_ status with any signal other
\* than NOT_PRESENT leaves the record unchanged; a status with none of these
\* prefixes is left unchanged for every signal.
C8_NodegroupStatusTable ==
    GroupUpdated =>
        LET status == pass.last.before.status
            ng_state == pass.last.ng_state
        IN  /\ (status \in CreateStatuses /\ ng_state = READY)
                    => LeftWith(CREATE_COMPLETE)
            /\ (status \in CreateStatuses /\ ng_state = FAILED)
                    => LeftWith(CREATE_FAILED)
            /\ (status \in UpdateStatuses /\ ng_state = READY)
                    => LeftWith(UPDATE_COMPLETE)
            /\ (status \in UpdateStatuses /\ ng_state = FAILED)
                    => LeftWith(UPDATE_FAILED)
            /\ (status \in CreateStatuses \cup UpdateStatuses
                    /\ ng_state \in {PENDING, NOT_PRESENT})
                    => LeftWith(status)
            /\ (status \in DeleteStatuses /\ ng_state # NOT_PRESENT)
                    => LeftWith(status)
            /\ (status \notin CreateStatuses \cup UpdateStatuses \cup DeleteStatuses)
                    => LeftWith(status)

C8_Witness ==
    /\ GroupUpdated
    /\ pre.op = "update_nodegroup_status"
    /\ pass.last.before.status = UPDATE_IN_PROGRESS
    /\ pass.last.ng_state = FAILED
    /\ RecordOf(pass.last.name).status = UPDATE_FAILED

\* C9: a FAILED status is sticky: no pass moves a cluster record or a node
\* group record out of CREATE_FAILED or UPDATE_FAILED, even when the remote
\* objects later look healthy.
C9_FailedIsSticky ==
    /\ (PassEnded /\ pre.cluster.status \in {CREATE_FAILED, UPDATE_FAILED})
            => cluster.status = pre.cluster.status
    /\ (GroupUpdated /\ pass.last.before.status \in {CREATE_FAILED, UPDATE_FAILED})
            => /\ StillRecorded(pass.last.name)
               /\ RecordOf(pass.last.name).status = pass.last.before.status

HandledStatuses == {CREATE_IN_PROGRESS, UPDATE_IN_PROGRESS, DELETE_IN_PROGRESS}

Fetches ==
    {"get_capi_cluster", "get_kubeadm_control_plane", "get_machine_deployment",
     "get_all_machines_by_label"}

\* C10, as stated: when the cluster status is none of CREATE_IN_PROGRESS,
\* UPDATE_IN_PROGRESS and DELETE_IN_PROGRESS a pass raises no error, leaves
\* the cluster status and api_address unchanged, and invokes neither the
\* add-on query nor a cleanup collaborator.
C10_OtherStatusNoOp ==
    (PassEnded /\ pre.cluster.status \notin HandledStatuses)
    => /\ pass.outcome # "raised"
       /\ cluster.status = pre.cluster.status
       /\ cluster.api_address = pre.cluster.api_address
       /\ ~AddonQueried
       /\ ~CleanupInvoked

\* C10, amended: when the cluster status is none of CREATE_IN_PROGRESS,
\* UPDATE_IN_PROGRESS and DELETE_IN_PROGRESS a pass raises no error other
\* than that of a failed fetch of the remote cluster, control plane,
\* machine deployment or machines, leaves the cluster status and
\* api_address unchanged, and invokes neither the add-on query nor a
\* cleanup collaborator.
C10_OtherStatusNoOpButFetchErrors ==
    (PassEnded /\ pre.cluster.status \notin HandledStatuses)
    => /\ pass.outcome = "raised" => log[Len(log)].op \in Fetches
       /\ pass.outcome \in {"raised", "returned"}
       /\ cluster.status = pre.cluster.status
       /\ cluster.api_address = pre.cluster.api_address
       /\ ~AddonQueried
       /\ ~CleanupInvoked

C10_Witness ==
    /\ PassEnded
    /\ pass.outcome = "returned"
    /\ pre.cluster.status = CREATE_FAILED
    /\ pass.capi.present
    /\ pass.capi.endpoint # None
    /\ cluster.api_address = None
    /\ AllThreeTrue(pass.capi)
    /\ Len(pass.retained) = 2

\* C11: a pass is idempotent: a second pass that finds the remote objects
\* the first one found leaves the cluster and node group records as the
\* first left them and makes no persistence write (no cluster.save, no
\* nodegroup.save, no nodegroup.destroy).
C11_SecondPassWritesNothing ==
    (pc = "twice" /\ pass.runs = 2)
    => /\ cluster = pass.first.cluster
       /\ nodegroups = pass.first.nodegroups
       /\ log = <<>>

\* The part of C11 that does hold: the records after the second pass are
\* those after the first
SecondPassSameRecords ==
    (pc = "twice" /\ pass.runs = 2)
    => /\ cluster = pass.first.cluster
       /\ nodegroups = pass.first.nodegroups

\* C12: once the cluster's api_address is set, no step of a later pass sets
\* it back to None, not even a pass that finds the remote cluster without a
\* controlPlaneEndpoint or absent; and a pass writes the address only while
\* the cluster status is CREATE_IN_PROGRESS or UPDATE_IN_PROGRESS, whatever
\* the readiness conditions are.
C12_AddressMonotonic ==
    [][pre'.op = "update_cluster_status"
         => /\ cluster.api_address # None => cluster'.api_address # None
            /\ cluster'.api_address # cluster.api_address
                 => /\ cluster.status \in {CREATE_IN_PROGRESS, UPDATE_IN_PROGRESS}
                    /\ pass'.capi.present
                    /\ pass'.capi.endpoint # None
                    /\ cluster'.api_address =
                           Some(<<"https", pass'.capi.endpoint[1].host,
                                  pass'.capi.endpoint[1].port>>)]_vars

C12_Witness ==
    /\ PassEnded
    /\ pre.cluster.status = UPDATE_IN_PROGRESS
    /\ pre.cluster.api_address # None
    /\ pass.capi.present
    /\ pass.capi.endpoint = None
    /\ ~AllThreeTrue(pass.capi)
    /\ cluster.api_address = pre.cluster.api_address

Replicas(kcp) ==
    <<kcp.spec_replicas, kcp.replicas, kcp.updatedReplicas, kcp.readyReplicas>>

\* C13: for a control plane object that is present, the signal is READY if
\* and only if MachinesReady, Ready, EtcdClusterHealthy and
\* ControlPlaneComponentsHealthy each have status "True" and spec.replicas,
\* status.replicas, status.updatedReplicas and status.readyReplicas are all
\* four present and equal; in every other case, a missing replica value
\* included, the signal is PENDING.
C13_ControllerReadiness ==
    (/\ GroupUpdated
     /\ pass.last.before.role = NODE_GROUP_ROLE_CONTROLLER
     /\ pass.last.remote.present)
    => LET kcp == pass.last.remote
           ready == /\ \A t \in {"MachinesReady", "Ready", "EtcdClusterHealthy",
                                 "ControlPlaneComponentsHealthy"} :
                            HasTrue(kcp.conditions, t)
                    /\ \A i \in 1..4 : Replicas(kcp)[i] # None
                    /\ \A i, j \in 1..4 : Replicas(kcp)[i] = Replicas(kcp)[j]
       IN  pass.last.ng_state = IF ready THEN READY ELSE PENDING

\* C14: for a machine deployment that is present, phase Running gives
\* READY, Failed or Unknown gives FAILED, a missing or empty phase gives
\* PENDING and so does every other phase; an absent machine deployment of a
\* group whose status does not start with DELETE_ gives NOT_PRESENT.
C14_WorkerPhaseMapping ==
    (GroupUpdated /\ pass.last.before.role # NODE_GROUP_ROLE_CONTROLLER)
    => LET md == pass.last.remote
           ng_state == pass.last.ng_state
       IN  /\ md.present =>
                 /\ md.phase = Some("Running") => ng_state = READY
                 /\ md.phase \in {Some("Failed"), Some("Unknown")} => ng_state = FAILED
                 /\ md.phase \in {None, Some("")} => ng_state = PENDING
                 /\ md.phase \notin {Some("Running"), Some("Failed"), Some("Unknown")}
                        => ng_state = PENDING
           /\ (~md.present /\ pass.last.before.status \notin DeleteStatuses)
                 => ng_state = NOT_PRESENT

C14_Witness ==
    /\ GroupUpdated
    /\ pre.op = "update_cluster_status"
    /\ pc = "decide"
    /\ pass.last.before.role = "worker"
    /\ pass.last.before.status = UPDATE_IN_PROGRESS
    /\ pass.last.remote.present
    /\ pass.last.remote.phase = Some("")
    /\ pass.last.ng_state = PENDING

FailedStatuses == {CREATE_FAILED, UPDATE_FAILED}

\* C15: the controller variant never yields the signal FAILED: whatever the
\* control plane object holds, no pass changes the controller node group's
\* status to CREATE_FAILED or UPDATE_FAILED.
C15_ControllerNeverFailed ==
    (GroupUpdated /\ pass.last.before.role = NODE_GROUP_ROLE_CONTROLLER)
    => /\ pass.last.ng_state # FAILED
       /\ StillRecorded(pass.last.name)
            => (RecordOf(pass.last.name).status \in FailedStatuses
                    => pass.last.before.status = RecordOf(pass.last.name).status)

C15_Witness ==
    /\ GroupUpdated
    /\ pc = "decide"
    /\ pass.last.before.role = NODE_GROUP_ROLE_CONTROLLER
    /\ pass.last.before.status = UPDATE_IN_PROGRESS
    /\ pass.last.remote.present
    /\ ~HasTrue(pass.last.remote.conditions, "EtcdClusterHealthy")
    /\ pass.last.remote.readyReplicas # pass.last.remote.replicas
    /\ RecordOf(pass.last.name).status = UPDATE_IN_PROGRESS

\* The version a control plane object reports: status.version, and
\* spec.version when the status has none
Reported(kcp) == IF kcp.status_version # None THEN kcp.status_version ELSE kcp.spec_version

\* C16: after the controller step of a pass in which the control plane
\* object is present and reports a Kubernetes version (status.version,
\* else spec.version), the cluster's coe_version is that version, whether or
\* not the control plane is ready; the cluster is saved for it only when
\* the version differs from the one stored.
C16_VersionStamping ==
    (/\ GroupUpdated
     /\ pass.last.before.role = NODE_GROUP_ROLE_CONTROLLER
     /\ pass.last.remote.present
     /\ Reported(pass.last.remote) # None)
    => /\ cluster.coe_version = Reported(pass.last.remote)
       /\ (\E i \in 1..Len(log) : log[i] = Ev("cluster.save", "coe_version"))
            <=> Reported(pass.last.remote) # pre.cluster.coe_version

C16_Witness ==
    /\ GroupUpdated
    /\ pc = "decide"
    /\ pass.last.before.role = NODE_GROUP_ROLE_CONTROLLER
    /\ pass.last.remote.present
    /\ pass.last.remote.status_version = None
    /\ pass.last.remote.spec_version = Some("v1.29")
    /\ pass.last.ng_state = PENDING
    /\ pre.cluster.coe_version = Some("v1.28")
    /\ cluster.coe_version = Some("v1.29")

RemoteReads ==
    Fetches \cup {"get_manifests_by_label", "get_helm_releases_by_label"}

Written ==
    Logged("cluster.save") \/ Logged("nodegroup.save") \/ Logged("nodegroup.destroy")

\* C17: when a remote call of a pass fails with a transport or server
\* error, the pass aborts and has mutated and persisted no cluster or node
\* group record: all records are as they were before the pass, also when
\* the failing call comes after the address update or after an earlier
\* node group's update of the same pass.
C17_AbortLeavesRecords ==
    (/\ PassEnded
     /\ pass.outcome = "raised"
     /\ log[Len(log)].op \in RemoteReads)
    => /\ cluster = pre.cluster
       /\ ~Written

-----------------------------------------------------------------------------
(* Properties of the resource client *)

Fetched == pc = "client_done" /\ pass.call = "fetch"

\* C18: Resource.fetch returns the decoded object for every 2xx status,
\* returns absent (None) without raising for 404, and for every other status
\* outside 2xx (1xx, 3xx, other 4xx, 5xx) raises a request error and never
\* returns absent.
C18_FetchStatusMapping ==
    Fetched =>
        LET code == pass.resp.code
            result == pass.result
        IN  /\ (200 <= code /\ code < 300)
                 => ~result.raised /\ result.val = pass.resp.body
            /\ code = 404 => ~result.raised /\ result.val = NoObject
            /\ (~(200 <= code /\ code < 300) /\ code # 404) => result.raised

\* What fetch does for the codes that raise_for_status lets through
FetchOfUnraisedCodes ==
    Fetched =>
        LET code == pass.resp.code
            result == pass.result
        IN  /\ (200 <= code /\ code < 300)
                 => ~result.raised /\ result.val = pass.resp.body
            /\ code = 404 => ~result.raised /\ result.val = NoObject
            /\ (400 <= code /\ code < 600 /\ code # 404) => result.raised
            /\ (code < 200 \/ (300 <= code /\ code < 400))
                 => ~result.raised /\ result.val = NoObject

Listing == pc \in {"list_request", "list_response", "client_done"} /\ pass.call = "list"

KeyOf(request) == IF request.arg = None THEN "" ELSE request.arg[1]

\* The page that answered the i-th recorded request
PageAt(i) == pass.server[KeyOf(log[i])]

RECURSIVE ItemsUpTo(_)
ItemsUpTo(n) == IF n = 0 THEN <<>> ELSE ItemsUpTo(n - 1) \o PageAt(n).items

LastToken(page) == page.continue = None \/ page.continue = Some("")

\* The requests made are those of a listing that follows the tokens: the
\* first carries no continue parameter, each later one carries the token of
\* the page before it, and no page before the last one answered was a last
\* page or an error
TokensFollowed ==
    (Listing /\ log # <<>>) =>
        /\ log[1].arg = None
        /\ \A i \in 2..Len(log) :
              /\ PageAt(i - 1).code = 200
              /\ ~LastToken(PageAt(i - 1))
              /\ log[i].arg = PageAt(i - 1).continue

\* C19: fetch_all_by_label yields every item of every page exactly once, in
\* page order; the first request carries no continue parameter and each
\* later one carries the token the server returned with the page before;
\* the listing is complete, and no further request is made, at the first
\* page whose continuation token is empty or not returned.
C19_PaginationExhaustion ==
    /\ TokensFollowed
    /\ (Listing /\ pc = "client_done" /\ Len(log) < MaxRequests
          /\ PageAt(Len(log)).code = 200)
       => /\ LastToken(PageAt(Len(log)))
          /\ pass.outcome = "returned"
          /\ pass.yielded = ItemsUpTo(Len(log))

\* The listing as coded: a page without metadata.continue ends the listing
\* with a KeyError after its items were yielded
ListingAsCoded ==
    /\ TokensFollowed
    /\ (Listing /\ pc = "client_done" /\ Len(log) < MaxRequests
          /\ PageAt(Len(log)).code = 200)
       => /\ LastToken(PageAt(Len(log)))
          /\ pass.outcome = IF PageAt(Len(log)).continue = None
                            THEN "KeyError" ELSE "returned"
          /\ pass.yielded = ItemsUpTo(Len(log))

\* C20: the pagination loop of fetch_all_by_label has an iteration cap: a
\* listing that was started ends after a bounded number of page requests,
\* also when the server returns a non-empty continuation token on every
\* page.
C20_ListingTerminates == (pc = "list_request") ~> (pc = "client_done")

-----------------------------------------------------------------------------
(* Properties of the resource operations *)

Applied ==
    pc = "resource_done" /\ pass.call = "apply" /\ pass.outcome # "AssertionError"

ScopeViolated ==
    \/ pass.self.namespaced /\ ~Truthy(pass.namespace)
    \/ ~pass.self.namespaced /\ Truthy(pass.namespace)

\* C22: fetch, fetch_all_by_label, apply and delete_all_by_label fail an
\* assertion on a namespaced resource kind when no namespace is given and
\* on a cluster-scoped kind (Namespace) when a namespace is given, and in
\* both cases no HTTP request is sent.
C22_ScopeContract ==
    (/\ pc = "resource_done"
     /\ pass.call \in {"fetch", "fetch_all_by_label", "apply", "delete_all_by_label"}
     /\ ScopeViolated)
    => /\ pass.outcome = "AssertionError"
       /\ log = NoRequest

C22_Witness ==
    /\ pc = "resource_done"
    /\ pass.call = "delete_all_by_label"
    /\ pass.self = NamespaceKind
    /\ pass.namespace = Some("magnum-ns")
    /\ pass.outcome = "AssertionError"
    /\ log = NoRequest

-----------------------------------------------------------------------------
(* Properties of the driver operations and of passes in sequence *)

\* C23: a pass on a cluster whose release name is unset makes no request
\* for the cluster object (and none for a control plane, a machine
\* deployment, machines or add-ons) and goes the way of an absent object: in
\* CREATE_IN_PROGRESS or UPDATE_IN_PROGRESS it calls nothing and leaves the
\* cluster as it was; in DELETE_IN_PROGRESS it invokes the cleanup, and the
\* pass that returns leaves the cluster in DELETE_COMPLETE.
C23_UnsetReleaseNameIsAbsent ==
    (PassEnded /\ pre.cluster.stack_id = None)
    => /\ \A i \in 1..Len(log) : log[i].op \notin RemoteReads
       /\ ~pass.capi.present
       /\ pre.cluster.status \in {CREATE_IN_PROGRESS, UPDATE_IN_PROGRESS}
            => cluster = pre.cluster /\ log = <<>>
       /\ pre.cluster.status = DELETE_IN_PROGRESS
            => /\ log # <<>>
               /\ log[1].op = "delete_all_secrets_by_label"
               /\ pass.outcome = "returned"
                    => /\ cluster.status = DELETE_COMPLETE
                       /\ Logged("delete_app_cred")

C23_Witness ==
    /\ PassEnded
    /\ pre.cluster.stack_id = None
    /\ pre.cluster.status = DELETE_IN_PROGRESS
    /\ cluster.status = DELETE_COMPLETE
    /\ log[1].op = "delete_all_secrets_by_label"

NodegroupCalls ==
    {"get_kubeadm_control_plane", "get_machine_deployment",
     "get_all_machines_by_label", "nodegroup.save", "nodegroup.destroy"}

\* Within a pass the address update comes before every node group call
AddressBeforeNodegroups ==
    pre.op = "update_cluster_status" =>
        \A i, j \in 1..Len(log) :
            (log[i] = Ev("cluster.save", "api_address") /\ log[j].op \in NodegroupCalls)
                => i < j

\* C24: within one pass the address update happens before any node group
\* update, and the controller node group is processed first and the worker
\* node groups after it, whatever the order of the cluster's node group
\* collection.
C24_ControllerFirst ==
    /\ AddressBeforeNodegroups
    /\ pre.op = "update_cluster_status" =>
        \A i, j \in 1..Len(log) :
            (/\ log[i].op = "get_kubeadm_control_plane"
             /\ log[j].op \in {"get_machine_deployment", "get_all_machines_by_label"})
                => i < j
    /\ (pre.op = "update_cluster_status" /\ Logged("get_machine_deployment")
          /\ \E i \in 1..Len(nodegroups) : nodegroups[i].role = NODE_GROUP_ROLE_CONTROLLER)
        => Logged("get_kubeadm_control_plane")

\* A pass of the creation scenario, on both node groups still
\* CREATE_IN_PROGRESS, that found neither the control plane nor the worker
\* object
AbsentPass ==
    /\ pc = "converge"
    /\ pass.runs >= 1
    /\ pass.before.cluster.status = CREATE_IN_PROGRESS
    /\ \A i \in 1..Len(pass.before.nodegroups) :
          pass.before.nodegroups[i].status = CREATE_IN_PROGRESS
    /\ ~pass.remote.kcp.present
    /\ ~pass.remote.md.present

\* A pass of the creation scenario, after one that found neither object,
\* on both node groups still CREATE_IN_PROGRESS, that finds the control
\* plane ready, the worker Running, the three conditions "True" and no
\* add-on or only Deployed ones
ReadyPass ==
    /\ pc = "converge"
    /\ pass.runs = 2
    /\ ~pass.earlier.kcp /\ ~pass.earlier.md
    /\ pass.before.cluster.status = CREATE_IN_PROGRESS
    /\ \A i \in 1..Len(pass.before.nodegroups) :
          pass.before.nodegroups[i].status = CREATE_IN_PROGRESS
    /\ pass.remote.capi.present
    /\ AllThreeTrue(pass.remote.capi)
    /\ pass.remote.kcp.present
    /\ ControlPlaneState(pass.remote.kcp) = READY
    /\ pass.remote.md.present
    /\ pass.remote.md.phase = Some("Running")
    /\ \A i \in 1..Len(pass.remote.addons) :
          pass.remote.addons[i].phase = Some("Deployed")

\* The ready pass completes both node groups and then the cluster
ConvergesInOnePass ==
    ReadyPass =>
        /\ Len(nodegroups) = 2
        /\ \A i \in 1..Len(nodegroups) : nodegroups[i].status = CREATE_COMPLETE
        /\ cluster.status = CREATE_COMPLETE
        /\ \A i \in 1..Len(nodegroups) :
              /\ Logged("nodegroup.save")
              /\ \E j, k \in 1..Len(log) :
                    /\ log[j] = Ev("nodegroup.save", nodegroups[i].name)
                    /\ log[k] = Ev("cluster.save", "status")
                    /\ j < k

\* C25 as stated: a pass that finds neither the control plane nor the
\* worker object changes nothing, and a later pass that finds everything
\* ready completes both node groups and the cluster in that pass, the node
\* groups before the cluster.
C25_ConvergenceAbsentChangesNothing ==
    /\ AbsentPass => /\ cluster = pass.before.cluster
                     /\ nodegroups = pass.before.nodegroups
                     /\ log = <<>>
    /\ ConvergesInOnePass

\* C25: for a cluster in CREATE_IN_PROGRESS with a controller and a worker
\* group both CREATE_IN_PROGRESS, a pass that finds neither the control
\* plane nor the worker object leaves the cluster status and both node
\* group records as they were and saves nothing but an api_address the
\* cluster object reports and a coe_version reset to unset; a later pass
\* that finds the control plane ready, the worker Running, the three
\* conditions "True" and no add-on (or only Deployed ones) sets both node
\* groups and the cluster to CREATE_COMPLETE in that pass, node groups first.
C25_Convergence ==
    /\ AbsentPass =>
          /\ cluster.status = pass.before.cluster.status
          /\ cluster.stack_id = pass.before.cluster.stack_id
          /\ nodegroups = pass.before.nodegroups
          /\ \A i \in 1..Len(log) :
                log[i] \in {Ev("cluster.save", "api_address"),
                            Ev("cluster.save", "coe_version")}
          /\ cluster.api_address # pass.before.cluster.api_address
                => /\ pass.remote.capi.present
                   /\ cluster.api_address = Some(ApiAddress(pass.remote.capi.endpoint[1]))
          /\ cluster.coe_version # pass.before.cluster.coe_version
                => /\ pass.remote.capi.present
                   /\ cluster.coe_version = None
    /\ ConvergesInOnePass

C25_Witness ==
    /\ ReadyPass
    /\ pass.remote.addons = <<>>
    /\ cluster.status = CREATE_COMPLETE
    /\ nodegroups[1].role = "worker"
    /\ nodegroups[1].status = CREATE_COMPLETE
    /\ nodegroups[2].status = CREATE_COMPLETE
    /\ log[Len(log)] = Ev("cluster.save", "status")

\* A deletion pass has failed partway through the cleanup: after the
\* secret purge, or after the credential purge, and before DELETE_COMPLETE
\* was persisted
FailedPartway ==
    /\ pc = "delete_idle"
    /\ pass.outcome = "raised"
    /\ ~pass.remote \/ cluster.stack_id = None
    /\ pass.secrets_purged \/ pass.cred_purged
    /\ cluster.status = DELETE_IN_PROGRESS

\* C26: for a cluster in DELETE_IN_PROGRESS whose remote object is absent,
\* after a pass that failed partway through the cleanup (after the secret
\* purge or after the credential purge, before DELETE_COMPLETE was saved),
\* the passes invoked later eventually set the cluster to DELETE_COMPLETE:
\* secrets or a credential that are already gone do not block completion.
C26_DeletionReinvocation == FailedPartway ~> (cluster.status = DELETE_COMPLETE)

\* The same, for a pass that failed before the credential was purged
ReinvocationBeforeCredentialPurge ==
    (FailedPartway /\ ~pass.cred_purged /\ pass.faults = MaxFaults)
        ~> (cluster.status = DELETE_COMPLETE)

-----------------------------------------------------------------------------
(* Properties of delete_app_cred *)

Deletes == Len(SelectSeq(log, LAMBDA call : call.op = "app_cred.delete"))

\* The name begins with "magnum-" followed by the cluster's uuid
CarriesPrefix(name, uuid) ==
    \E k \in 0..Len(name) : SubSeq(name, 1, k) = <<"magnum-">> \o uuid

\* C27: delete_app_cred calls delete on the credential, once, if and only
\* if the lookup returns the credential and its name starts with
\* "magnum-<cluster uuid>"; when the lookup reports not-found, or the name
\* does not carry that prefix, it raises ApplicationCredentialError and
\* does not call delete.
C27_DeleteAppCred ==
    pc = "app_cred_done" =>
        /\ Deletes <= 1
        /\ Deletes = 1 <=> /\ pass.lookup.found
                            /\ CarriesPrefix(pass.lookup.name, pass.uuid)
        /\ (\/ pass.lookup.error = "NotFound"
            \/ pass.lookup.found /\ ~CarriesPrefix(pass.lookup.name, pass.uuid))
           => /\ pass.raised = "ApplicationCredentialError"
              /\ Deletes = 0
        /\ Deletes = 1 => pass.raised # "ApplicationCredentialError"

C27_Witness ==
    /\ pc = "app_cred_done"
    /\ pass.uuid = <<"a", "1">>
    /\ pass.lookup.name = <<"magnum-", "a", "1", "-", "x">>
    /\ Deletes = 1
    /\ pass.raised = ""

-----------------------------------------------------------------------------
(* Properties of delete_cluster and create_cluster *)

AllDeleting(records) ==
    \A i \in 1..Len(records) : records[i].status = DELETE_IN_PROGRESS

\* delete_cluster has run and nothing else since
Deleted == pre.op = "delete_cluster"

\* C28: delete_cluster sets every node group of the cluster to
\* DELETE_IN_PROGRESS and saves each of them before it invokes the release
\* uninstall, and invokes the uninstall if and only if the cluster has a
\* release name; so the pass that starts after the uninstall was invoked
\* finds all node groups in DELETE_IN_PROGRESS.
C28_DeleteMarksGroupsFirst ==
    /\ [](Deleted =>
            /\ AllDeleting(nodegroups)
            /\ \A i \in 1..Len(nodegroups) :
                  \E j \in 1..Len(log) :
                     /\ log[j] = Ev("nodegroup.save", nodegroups[i].name)
                     /\ \A k \in 1..Len(log) :
                           log[k].op = "uninstall_release" => j < k
            /\ Logged("uninstall_release") <=> Truthy(pre.cluster.stack_id)
            /\ cluster = pre.cluster)
    /\ [][(Deleted /\ pre'.op = "update_cluster_status")
            => /\ AllDeleting(nodegroups')
               /\ AllDeleting(pass'.todo)]_vars

C28_Witness ==
    /\ Deleted
    /\ Len(nodegroups) = 2
    /\ AllDeleting(nodegroups)
    /\ Len(log) = 3
    /\ log[3].op = "uninstall_release"
    /\ cluster.status = CREATE_COMPLETE

Creating == pre.op = "create_cluster"

\* The calls of a create_cluster that runs to its end, in the order stated:
\* the flavor checks of the master and of every node group, the save of a
\* newly generated release name, the namespace, the credential secret, the
\* certificate secrets, the installer
ExpectedCreateCalls ==
    <<Ev("validate_allowed_flavor", "master_flavor_id")>>
    \o [i \in 1..Len(nodegroups) |-> Ev("validate_allowed_flavor", nodegroups[i].name)]
    \o (IF Truthy(pre.cluster.stack_id) THEN <<>>
        ELSE <<Ev("cluster.save", "stack_id")>>)
    \o <<Ev("ensure_namespace", cluster.stack_id),
         Ev("apply_secret", <<cluster.stack_id, "cloud-credentials">>),
         Ev("apply_secret", <<cluster.stack_id, "ca">>),
         Ev("apply_secret", <<cluster.stack_id, "etcd">>),
         Ev("install_or_upgrade", cluster.stack_id)>>

IsPrefix(s, t) ==
    /\ Len(s) <= Len(t)
    /\ \A i \in 1..Len(s) : s[i] = t[i]

\* C29: create_cluster makes its calls in a fixed order: the flavor check of
\* the master flavor and of every node group, then the release name and its
\* save, then the namespace, then the credential secret, then the
\* certificate secrets, and last the installer; when a call raises, the
\* calls made are those up to it and no later one is made, so the installer
\* is never called after a failed check or a failed secret apply.
C29_CreateOrder ==
    /\ [](Creating =>
            /\ IsPrefix(log, ExpectedCreateCalls)
            /\ pass.outcome = "returned" => log = ExpectedCreateCalls
            /\ pass.outcome = "raised" => pc = "create_idle"
            /\ Logged("install_or_upgrade") => Len(log) = Len(ExpectedCreateCalls))
    /\ [][(Creating /\ pass.outcome = "raised")
            => (log' = <<>> /\ pass'.calls = pass.calls + 1)]_vars

C29_Witness ==
    /\ Creating
    /\ pass.outcome = "raised"
    /\ Len(log) = 6
    /\ log[2] = Ev("validate_allowed_flavor", "workers")
    /\ log[4] = Ev("cluster.save", "stack_id")
    /\ log[6].op = "apply_secret"
    /\ ~Logged("install_or_upgrade")

RemoteCreations == {"ensure_namespace", "apply_secret", "install_or_upgrade"}

\* C30: the release name is generated at most once: _generate_release_name
\* sets and saves it only when it is unset, before any remote resource is
\* created with it, and a later call (a repeated create_cluster) leaves a
\* release name that is set unchanged and saves nothing for it.
C30_ReleaseNameOnce ==
    /\ [][Truthy(cluster.stack_id) => cluster'.stack_id = cluster.stack_id]_vars
    /\ [](Creating =>
            /\ Logged("cluster.save") => ~Truthy(pre.cluster.stack_id)
            /\ Truthy(pre.cluster.stack_id) => cluster.stack_id = pre.cluster.stack_id
            /\ \A i \in 1..Len(log) :
                  log[i].op \in RemoteCreations
                     => /\ Truthy(cluster.stack_id)
                        /\ \/ Truthy(pre.cluster.stack_id)
                           \/ \E j \in 1..(i - 1) : log[j] = Ev("cluster.save", "stack_id"))

C30_Witness ==
    /\ Creating
    /\ pass.calls = 2
    /\ pass.outcome = "returned"
    /\ pre.cluster.stack_id = Some("cluster-q9m4")
    /\ cluster.stack_id = Some("cluster-q9m4")
    /\ Logged("install_or_upgrade")
    /\ ~Logged("cluster.save")

-----------------------------------------------------------------------------
(* Properties of the node group loop *)

GroupsUpdated == pc = "groups_done"

\* The signal the loop derived for a node group, from the remote objects
SignalOf(nodegroup) ==
    IF nodegroup.role = NODE_GROUP_ROLE_CONTROLLER
    THEN ControlPlaneState(pass.remote.kcp)
    ELSE WorkerState(pass.remote.md, nodegroup,
                     AsksForMachines(pass.remote.md, nodegroup)
                        /\ pass.remote.machines # <<>>)

\* The node group was reported gone: a DELETE_ status and signal NOT_PRESENT
Gone(nodegroup) ==
    Prefix(nodegroup.status) = "DELETE_" /\ SignalOf(nodegroup) = NOT_PRESENT

\* C31 as stated: _update_all_nodegroups_status returns True if and only
\* if, after the update of every node group, at least one of the cluster's
\* node groups has a status ending in _IN_PROGRESS.
C31_ReturnsAnyGroupInProgress ==
    GroupsUpdated =>
        (pass.returned <=>
            \E i \in 1..Len(nodegroups) : nodegroups[i].status \in InProgressSuffix)

\* C31: _update_all_nodegroups_status returns True if and only if, after
\* the update of every node group, at least one node group that was not
\* reported gone (DELETE_ status with signal NOT_PRESENT) has a status
\* ending in _IN_PROGRESS; a default group reported gone keeps its record
\* and its DELETE_IN_PROGRESS status and is not counted.
C31_ReturnsKeptGroupInProgress ==
    GroupsUpdated =>
        /\ pass.returned <=>
              \E i \in 1..Len(pass.before) :
                 /\ ~Gone(pass.before[i])
                 /\ \E j \in 1..Len(nodegroups) :
                       /\ nodegroups[j].name = pass.before[i].name
                       /\ nodegroups[j].status \in InProgressSuffix
        /\ \A i \in 1..Len(pass.before) :
              Gone(pass.before[i]) =>
                 (pass.before[i].is_default <=>
                    \E j \in 1..Len(nodegroups) : nodegroups[j] = pass.before[i])

C31_Witness ==
    /\ GroupsUpdated
    /\ ~pass.returned
    /\ Len(nodegroups) = 2
    /\ nodegroups[2].role = NODE_GROUP_ROLE_CONTROLLER
    /\ nodegroups[2].status = DELETE_IN_PROGRESS
    /\ nodegroups[1].status = UPDATE_COMPLETE

-----------------------------------------------------------------------------
(* Properties of the node count validation *)

Validated == pc = "validated" /\ pre.op = "_validate_allowed_node_counts"

CheckedGroup == nodegroups[1]

\* C32: _validate_allowed_node_counts returns (min, max) exactly when min
\* is None, or 1 <= min <= node_count and (max is None or max >= min);
\* otherwise it raises NodeGroupInvalidInput, and the message is that of the
\* first failing check in the order min < 1, min > node_count, max < min.
\* For a group that is not the default worker group min and max are
\* min_node_count and max_node_count, or node_count where these are unset.
C32_ValidateAllowedNodeCounts ==
    Validated =>
        LET min == pass.min_nodes
            max == pass.max_nodes
            node_count == CheckedGroup.node_count
            allowed ==
                \/ min = None
                \/ /\ 1 <= min[1]
                   /\ min[1] <= node_count
                   /\ (max = None \/ max[1] >= min[1])
        IN  /\ pass.raised = None <=> allowed
            /\ ~allowed =>
                  pass.raised =
                     IF min[1] < 1 THEN Some(MinBelowOne)
                     ELSE IF min[1] > node_count THEN Some(MinAboveCount)
                     ELSE Some(MaxBelowMin)
            /\ ~CheckedGroup.is_default_worker =>
                  /\ CheckedGroup.min_node_count = None
                        => min = Some(node_count)
                  /\ CheckedGroup.min_node_count # None
                        => min = CheckedGroup.min_node_count
                  /\ CheckedGroup.max_node_count = None
                        => max = Some(node_count)
                  /\ CheckedGroup.max_node_count # None
                        => max = CheckedGroup.max_node_count

\* min = 0 and max < min: the first check is the one reported
C32_Witness ==
    /\ Validated
    /\ pass.min_nodes = Some(0)
    /\ pass.max_nodes # None
    /\ pass.max_nodes[1] < 0
    /\ pass.raised = Some(MinBelowOne)

\* C40 as stated: whenever _validate_allowed_node_counts returns (min, max)
\* with both values not None, 1 <= min <= node_count <= max.
C40_CountInsideRange ==
    (pc = "validated" /\ pass.raised = None
        /\ pass.min_nodes # None /\ pass.max_nodes # None) =>
        /\ 1 <= pass.min_nodes[1]
        /\ pass.min_nodes[1] <= CheckedGroup.node_count
        /\ CheckedGroup.node_count <= pass.max_nodes[1]

-----------------------------------------------------------------------------
(* The add-on list and its order *)

\* The same add-ons in the order given by a permutation of their positions
Reordered(addons, order) == [i \in 1..Len(addons) |-> addons[order[i]]]

\* C33 as stated: the cluster status after the pass does not depend on the
\* order in which the add-ons are returned: every permutation of the
\* add-on sequence yields the same cluster status.
C33_AddonOrderIrrelevant ==
    (/\ PassEnded
     /\ pre.cluster.status \in {CREATE_IN_PROGRESS, UPDATE_IN_PROGRESS}
     /\ pass.addons # None
     /\ pass.addons[1] # <<>>) =>
        \A order \in Permutations(1..Len(pass.addons[1])) :
            cluster.status =
                StatusAfterAddons(pre.cluster.status,
                                  Reordered(pass.addons[1], order))

-----------------------------------------------------------------------------
(* The stored Kubernetes version *)

\* C34 as stated: a pass in which the control plane object is absent, or
\* reports no version in its status or its spec, leaves cluster.coe_version
\* unchanged: a known version is never overwritten with an empty value.
C34_AbsentControlPlaneKeepsVersion ==
    (/\ pre.op = "update_cluster_status"
     /\ pass.last.name # ""
     /\ pass.last.before.role = NODE_GROUP_ROLE_CONTROLLER
     /\ KubeVersion(pass.last.remote) = None) =>
        cluster.coe_version = pre.cluster.coe_version

-----------------------------------------------------------------------------
(* Failed node groups and the verdict on the cluster *)

\* C35 as stated: a cluster never transitions to CREATE_COMPLETE or
\* UPDATE_COMPLETE in a pass at the end of which one of its node groups has
\* status CREATE_FAILED or UPDATE_FAILED.
C35_FailedGroupBlocksCompletion ==
    (/\ PassEnded
     /\ cluster.status # pre.cluster.status
     /\ \E i \in 1..Len(nodegroups) :
           nodegroups[i].status \in {CREATE_FAILED, UPDATE_FAILED}) =>
        cluster.status \notin {CREATE_COMPLETE, UPDATE_COMPLETE}

-----------------------------------------------------------------------------
(* A pass that does not find the remote cluster object *)

NodegroupRequests ==
    {"get_kubeadm_control_plane", "get_machine_deployment",
     "get_all_machines_by_label", "nodegroup.save", "nodegroup.destroy"}

\* C36: in a pass where the remote cluster object is absent no node group is
\* touched: no control plane, machine deployment or machine request is
\* issued, no node group is saved or destroyed and the node group records
\* stay as they are (so the cluster can be marked DELETE_COMPLETE while a
\* non-default node group record still reads DELETE_IN_PROGRESS).
C36_AbsentClusterTouchesNoNodegroup ==
    /\ []((pre.op = "update_cluster_status" /\ ~pass.capi.present) =>
            \A i \in 1..Len(log) : log[i].op \notin NodegroupRequests)
    /\ [][(pre'.op = "update_cluster_status" /\ ~pass'.capi.present) =>
            nodegroups' = nodegroups]_vars

C36_Witness ==
    /\ PassEnded
    /\ ~pass.capi.present
    /\ pre.cluster.status = DELETE_IN_PROGRESS
    /\ cluster.status = DELETE_COMPLETE
    /\ \E i \in 1..Len(nodegroups) :
          ~nodegroups[i].is_default /\ nodegroups[i].status = DELETE_IN_PROGRESS

-----------------------------------------------------------------------------
(* Passes that interleave with delete_cluster and with each other *)

Count(op) == Cardinality({i \in 1..Len(log) : log[i].op = op})

Destroyed(name) ==
    Cardinality({i \in 1..Len(log) :
                    log[i] = Ev("nodegroup.destroy", name)})

\* C37 as stated: when a pass interleaves with delete_cluster for a cluster
\* in DELETE_IN_PROGRESS that has a release name, the cluster is not set to
\* DELETE_COMPLETE and the cleanup collaborators are not invoked before
\* delete_cluster has invoked the release uninstall.
C37_UninstallBeforeCompletion ==
    (/\ pre.cluster.stack_id # None
     /\ cluster.status = DELETE_COMPLETE \/ CleanupInvoked) =>
        Logged("uninstall_release")

\* C38 as stated: over any execution, two interleaving passes included, the
\* secret purge and the credential purge are each invoked at most once per
\* cluster deletion and nodegroup.destroy at most once per node group
\* record.
C38_CleanupAtMostOnce ==
    /\ Count("delete_all_secrets_by_label") <= 1
    /\ Count("delete_app_cred") <= 1
    /\ \A name \in {"default-master", "workers"} : Destroyed(name) <= 1

-----------------------------------------------------------------------------
(* Operations whose validation fails *)

ValidationRaised ==
    \E i \in 1..Len(log) : log[i] = Ev("validate_allowed_flavor", "raised")

\* C39 as stated: if upgrade_cluster raises because a flavor validation
\* fails, the call has persisted no record change: no node group has been
\* saved with the new UPDATE_IN_PROGRESS status, the cluster record is
\* unchanged and the installer has not been called.
C39_FailedValidationPersistsNothing ==
    (pre.op = "upgrade_cluster" /\ ValidationRaised) =>
        /\ ~Logged("nodegroup.save")
        /\ cluster = pre.cluster
        /\ ~Logged("update_helm_release")
====
